---------------------------- MODULE Spec2Model ----------------------------
(***************************************************************************)
(* A model of the RhymeslikeDimes rhyme engine:                            *)
(*   backend/app/core/datamuse.py      DatamuseClient                      *)
(*   backend/app/core/rhyme_engine.py  RhymeEngine                         *)
(*   backend/app/api/routes.py         POST /analyze                       *)
(*   backend/app/api/websocket.py      ConnectionManager                   *)
(*                                                                         *)
(* A text string is a sequence of symbols.  A symbol is a blank, a letter  *)
(* or a punctuation mark; an upper-case letter has a lower-case twin.  A   *)
(* pronunciation is a sequence of phonemes; a phoneme is a record of its   *)
(* ARPAbet symbol and its stress digit ("0", "1", "2"; "" for a            *)
(* consonant), the digit being the last character of the phoneme as the    *)
(* CMU dictionary writes it.                                               *)
(***************************************************************************)
EXTENDS Integers, Sequences, FiniteSets, TLC

VARIABLES
    cmu,      \* the pronouncing dictionary: lower-case word -> pronunciations
    datamuse, \* the Datamuse service: kind of query -> its answer
    enhanced_features_enabled,   \* RhymeEngine.enhanced_features_enabled
    overrides,  \* PhonemesManager.overrides: normalised word -> pronunciations
    cache,      \* the lru_cache of get_phones: its entries, least recently used first
    call,     \* the last operation called, with its arguments
    ret,      \* what that operation returned
    active_connections,  \* ConnectionManager.active_connections
    endpoint  \* socket -> where its websocket_endpoint coroutine stands

vars == <<cmu, datamuse, enhanced_features_enabled, overrides, cache, call, ret,
          active_connections, endpoint>>

----------------------------------------------------------------------------
(* Bounds of the model *)

\* phonemes in the primary pronunciations of the two words the classifier and
\* the scorers are run on, taken together
MaxPhones == 6

\* words in a list given to sliding_ngrams, and the largest n_max given
MaxWords == 4

\* words in a line given to analyze_bar
MaxBarWords == 3

\* answers of the Datamuse service and kinds of query it fails on, taken
\* together
MaxReplies == 2

\* the largest max_results given
MaxResults == 2

\* entries the lru_cache of get_phones holds (1000 in the source)
maxsize == 2

\* words of the line analysed, answers of the service, kinds of request that
\* fail, helpers that fail and max_results, taken together
MaxLoad == 5

\* clients of the WebSocket endpoint
MaxSockets == 2

----------------------------------------------------------------------------
(* Small helpers *)

Min(a, b) == IF a <= b THEN a ELSE b
Max(a, b) == IF a >= b THEN a ELSE b
Abs(a) == IF a >= 0 THEN a ELSE 0 - a

\* s[-n:] of Python for 0 < n
LastN(s, n) == IF n >= Len(s) THEN s ELSE SubSeq(s, Len(s) - n + 1, Len(s))

\* a fraction n/d, d > 0, kept as a pair; q >= n/d by cross-multiplication
Frac(n, d) == <<n, d>>
FracGE(q, n, d) == q[1] * d >= n * q[2]
FracMin(p, q) == IF p[1] * q[2] <= q[1] * p[2] THEN p ELSE q
RECURSIVE GCD(_, _)
GCD(a, b) == IF b = 0 THEN a ELSE GCD(b, a % b)
Reduced(n, d) == <<n \div GCD(n, d), d \div GCD(n, d)>>
FracAdd(p, q) == Reduced(p[1] * q[2] + q[1] * p[2], p[2] * q[2])
FracMul(p, q) == Reduced(p[1] * q[1], p[2] * q[2])
FracEq(p, q) == p[1] * q[2] = q[1] * p[2]
FracGT(p, q) == p[1] * q[2] > q[1] * p[2]
Zero == Frac(0, 1)
One == Frac(1, 1)

\* set(s)
SetOf(s) == {s[i] : i \in 1..Len(s)}

RECURSIVE ListsUpTo(_, _)
ListsUpTo(S, n) ==
    IF n = 0 THEN {<<>>}
    ELSE ListsUpTo(S, n - 1)
         \cup {Append(l, x) : l \in {m \in ListsUpTo(S, n - 1) : Len(m) = n - 1}, x \in S}

----------------------------------------------------------------------------
(* Text strings *)

Blanks == {" ", "\t"}
Punctuation == {".", ",", "!", "?", "'", "\""}
\* the upper-case letters in use; every other letter is lower-case
UpperLetters == {"A", "B", "C"}

\* str.lower() on one symbol
LowerSym(ch) ==
    CASE ch = "A" -> "a"
      [] ch = "B" -> "b"
      [] ch = "C" -> "c"
      [] OTHER -> ch

\* str.lower()
Lower(s) == [i \in 1..Len(s) |-> LowerSym(s[i])]

\* ord(ch): the code point strings are ordered by
Ord(ch) ==
    CASE ch = "\t" -> 9 [] ch = " " -> 32 [] ch = "!" -> 33 [] ch = "\"" -> 34
      [] ch = "'" -> 39 [] ch = "*" -> 42 [] ch = "," -> 44 [] ch = "." -> 46
      [] ch = "?" -> 63 [] ch = "A" -> 65 [] ch = "B" -> 66 [] ch = "C" -> 67
      [] ch = "_" -> 95
      [] ch = "a" -> 97 [] ch = "b" -> 98 [] ch = "c" -> 99 [] ch = "d" -> 100
      [] ch = "e" -> 101 [] ch = "f" -> 102 [] ch = "g" -> 103 [] ch = "h" -> 104
      [] ch = "i" -> 105 [] ch = "j" -> 106 [] ch = "k" -> 107 [] ch = "l" -> 108
      [] ch = "m" -> 109 [] ch = "n" -> 110 [] ch = "o" -> 111 [] ch = "p" -> 112
      [] ch = "q" -> 113 [] ch = "r" -> 114 [] ch = "s" -> 115 [] ch = "t" -> 116
      [] ch = "u" -> 117 [] ch = "v" -> 118 [] ch = "w" -> 119 [] ch = "x" -> 120
      [] ch = "y" -> 121 [] ch = "z" -> 122
      [] OTHER -> 8594

\* s < t for strings: the first difference decides, a proper prefix is smaller
RECURSIVE StrLess(_, _)
StrLess(s, t) ==
    IF t = <<>> THEN FALSE
    ELSE IF s = <<>> THEN TRUE
    ELSE IF s[1] = t[1] THEN StrLess(Tail(s), Tail(t))
    ELSE Ord(s[1]) < Ord(t[1])

\* str.strip(chars)
RECURSIVE StripChars(_, _)
StripChars(s, chars) ==
    IF s /= <<>> /\ s[1] \in chars THEN StripChars(Tail(s), chars)
    ELSE IF s /= <<>> /\ s[Len(s)] \in chars THEN StripChars(SubSeq(s, 1, Len(s) - 1), chars)
    ELSE s

\* " ".join(words)
RECURSIVE JoinFrom(_, _)
JoinFrom(words, i) ==
    IF i > Len(words) THEN <<>>
    ELSE IF i = 1 THEN words[1] \o JoinFrom(words, 2)
    ELSE <<" ">> \o words[i] \o JoinFrom(words, i + 1)

Join(words) == JoinFrom(words, 1)

\* s.split(): the maximal runs of symbols that are not blanks; word is the run
\* being read
RECURSIVE SplitFrom(_, _, _)
SplitFrom(s, i, word) ==
    IF i > Len(s) THEN (IF word = <<>> THEN <<>> ELSE <<word>>)
    ELSE IF s[i] \in Blanks
         THEN (IF word = <<>> THEN <<>> ELSE <<word>>) \o SplitFrom(s, i + 1, <<>>)
         ELSE SplitFrom(s, i + 1, Append(word, s[i]))

Split(s) == SplitFrom(s, 1, <<>>)

----------------------------------------------------------------------------
(* Phonemes and the pronouncing library *)

Vowel(s, d) == [sym |-> s, stress |-> d]
Consonant(s) == [sym |-> s, stress |-> ""]

\* any(char.isdigit() for char in p)
HasDigit(p) == p.stress /= ""
NoDigit(p) == p.stress = ""

\* p[:-1] if p[-1].isdigit() else p : the vowel without its stress marker
StripStress(p) == p.sym

\* [p for p in phonemes if any(char.isdigit() for char in p)]
RECURSIVE VowelsFrom(_, _)
VowelsFrom(phonemes, i) ==
    IF i > Len(phonemes) THEN <<>>
    ELSE IF HasDigit(phonemes[i]) THEN <<phonemes[i]>> \o VowelsFrom(phonemes, i + 1)
    ELSE VowelsFrom(phonemes, i + 1)

VowelsOf(phonemes) == VowelsFrom(phonemes, 1)

\* [p for p in phonemes if not any(char.isdigit() for char in p)]
RECURSIVE ConsonantsFrom(_, _)
ConsonantsFrom(phonemes, i) ==
    IF i > Len(phonemes) THEN <<>>
    ELSE IF NoDigit(phonemes[i]) THEN <<phonemes[i]>> \o ConsonantsFrom(phonemes, i + 1)
    ELSE ConsonantsFrom(phonemes, i + 1)

ConsonantsOf(phonemes) == ConsonantsFrom(phonemes, 1)

\* pronouncing.phones_for_word(word): all pronunciations, [] for an unknown word
phones_for_word(word) ==
    IF Lower(word) \in DOMAIN cmu THEN cmu[Lower(word)] ELSE <<>>

\* pronouncing.syllable_count(phones): the number of stress digits
syllable_count(phones) == Len(VowelsOf(phones))

\* pronouncing.rhyming_part(phones): from the last vowel of stress 1 or 2 that
\* is not the first phoneme to the end; the whole pronunciation if there is none
RECURSIVE RhymingPartFrom(_, _)
RhymingPartFrom(phones, i) ==
    IF i < 2 THEN phones
    ELSE IF phones[i].stress \in {"1", "2"} THEN SubSeq(phones, i, Len(phones))
    ELSE RhymingPartFrom(phones, i - 1)

rhyming_part(phones) == RhymingPartFrom(phones, Len(phones))

----------------------------------------------------------------------------
(* DatamuseClient._is_perfect_rhyme *)

\* the loop that counts the trailing phonemes the two rhyming parts share
RECURSIVE CommonSuffixFrom(_, _, _)
CommonSuffixFrom(r1, r2, i) ==
    IF i > Min(Len(r1), Len(r2)) THEN i - 1
    ELSE IF r1[Len(r1) - i + 1] = r2[Len(r2) - i + 1]
         THEN CommonSuffixFrom(r1, r2, i + 1)
         ELSE i - 1

common_suffix_length(r1, r2) == CommonSuffixFrom(r1, r2, 1)

\* consonants1[-1] == consonants2[-1], False when a word has no consonant
ending_consonant_match(phonemes1, phonemes2) ==
    LET consonants1 == ConsonantsOf(phonemes1)
        consonants2 == ConsonantsOf(phonemes2)
    IN  IF consonants1 /= <<>> /\ consonants2 /= <<>>
        THEN consonants1[Len(consonants1)] = consonants2[Len(consonants2)]
        ELSE FALSE

\* the last vowels compared without their stress markers
vowel_assonance(phonemes1, phonemes2) ==
    LET vowels1 == VowelsOf(phonemes1)
        vowels2 == VowelsOf(phonemes2)
    IN  IF vowels1 /= <<>> /\ vowels2 /= <<>>
        THEN StripStress(vowels1[Len(vowels1)]) = StripStress(vowels2[Len(vowels2)])
        ELSE FALSE

\* rhyme_syllables / syllables if syllables > 0 else 0
Coverage(rhyme_syllables, syllables) ==
    IF syllables > 0 THEN Frac(rhyme_syllables, syllables) ELSE Frac(0, 1)

\* the branch taken when both words have two syllables or more
MultiSyllableRule(rhyme1, rhyme2, syllables1, syllables2, rhyme_syllables, suffix, consonant_match) ==
    IF rhyme1 = rhyme2 /\ (rhyme_syllables >= 2 \/ (rhyme_syllables = 1 /\ suffix >= 2))
    THEN TRUE
    ELSE IF suffix >= 3 THEN TRUE
    ELSE IF suffix >= 2 /\ Min(syllables1, syllables2) >= 3 THEN TRUE
    ELSE IF consonant_match /\ Abs(syllables1 - syllables2) <= 1 THEN TRUE
    ELSE FracGE(FracMin(Coverage(rhyme_syllables, syllables1),
                        Coverage(rhyme_syllables, syllables2)), 1, 2)

\* SingleSyllableRule without the assonance test
SingleSyllableRuleNoAssonance(rhyme1, rhyme2, suffix, consonant_match, assonance) ==
    IF rhyme1 = rhyme2 /\ Len(rhyme1) >= 2 THEN TRUE
    ELSE IF consonant_match THEN TRUE
    ELSE IF suffix >= 2 THEN TRUE
    ELSE FALSE

\* the branch taken when both words have one syllable; falls to "return False"
SingleSyllableRule(rhyme1, rhyme2, suffix, consonant_match, assonance) ==
    IF rhyme1 = rhyme2 /\ Len(rhyme1) >= 2 THEN TRUE
    ELSE IF consonant_match THEN TRUE
    ELSE IF assonance THEN TRUE
    ELSE IF suffix >= 2 THEN TRUE
    ELSE FALSE

\* MixedSyllableRule without the test for equal rhyming parts
MixedSyllableRuleNoEqual(rhyme1, rhyme2, syllables1, syllables2, rhyme_syllables, suffix, consonant_match) ==
    IF Max(syllables1, syllables2) <= 4 /\ (suffix >= 2 \/ consonant_match)
    THEN TRUE
    ELSE FracGE(FracMin(Coverage(rhyme_syllables, syllables1),
                        Coverage(rhyme_syllables, syllables2)), 3, 5)

\* the branch taken otherwise
MixedSyllableRule(rhyme1, rhyme2, syllables1, syllables2, rhyme_syllables, suffix, consonant_match) ==
    IF Max(syllables1, syllables2) <= 4
       /\ (rhyme1 = rhyme2 \/ suffix >= 2 \/ consonant_match)
    THEN TRUE
    ELSE FracGE(FracMin(Coverage(rhyme_syllables, syllables1),
                        Coverage(rhyme_syllables, syllables2)), 3, 5)

\* the body of the try block on two primary pronunciations
PerfectRhymeOfPhones(phone1, phone2) ==
    LET rhyme1 == rhyming_part(phone1)
        rhyme2 == rhyming_part(phone2)
        syllables1 == syllable_count(phone1)
        syllables2 == syllable_count(phone2)
        rhyme_syllables == syllable_count(rhyme1)
        suffix == common_suffix_length(rhyme1, rhyme2)
        consonant_match == ending_consonant_match(phone1, phone2)
        assonance == vowel_assonance(phone1, phone2)
    IN  IF rhyme1 = <<>> \/ rhyme2 = <<>> THEN FALSE
        ELSE IF syllables1 >= 2 /\ syllables2 >= 2
             THEN MultiSyllableRule(rhyme1, rhyme2, syllables1, syllables2,
                                    rhyme_syllables, suffix, consonant_match)
        ELSE IF syllables1 = 1 /\ syllables2 = 1
             THEN SingleSyllableRule(rhyme1, rhyme2, suffix, consonant_match, assonance)
        ELSE MixedSyllableRule(rhyme1, rhyme2, syllables1, syllables2,
                               rhyme_syllables, suffix, consonant_match)

\* _is_perfect_rhyme answering True when a pronunciation is missing
PerfectRhymeMissingIsTrue(word1, word2) ==
    LET phones1 == phones_for_word(Lower(word1))
        phones2 == phones_for_word(Lower(word2))
    IN  IF phones1 = <<>> \/ phones2 = <<>> THEN TRUE
        ELSE PerfectRhymeOfPhones(phones1[1], phones2[1])

_is_perfect_rhyme(word1, word2) ==
    LET phones1 == phones_for_word(Lower(word1))
        phones2 == phones_for_word(Lower(word2))
    IN  IF phones1 = <<>> \/ phones2 = <<>> THEN FALSE
        ELSE PerfectRhymeOfPhones(phones1[1], phones2[1])

----------------------------------------------------------------------------
(* DatamuseClient: the candidate provider and the classification of its    *)
(* candidates.  datamuse[kind] is what the Datamuse service answers to a   *)
(* query of that kind: ok = FALSE when the request raises, words otherwise. *)
(* A lookup is written <<kind, query string>>.                             *)

\* s[:n] for n >= 0
Take(s, n) == SubSeq(s, 1, Min(n, Len(s)))

\* x in list
InList(x, list) == \E i \in 1..Len(list) : list[i] = x

\* " " in phrase
HasSpace(phrase) == \E i \in 1..Len(phrase) : phrase[i] = " "

\* str.strip(): without the blanks at both ends
Strip(s) == StripChars(s, Blanks)

\* self.api.words(**params): the words of the items returned
api_words(kind) == datamuse[kind]

\* get_rhymes: the request parameter of each rhyme type
RhymeKind(rhyme_type) ==
    CASE rhyme_type = "perfect" -> "rel_rhy"
      [] rhyme_type = "near" -> "rel_nry"
      [] rhyme_type = "slant" -> "sl"
      [] OTHER -> "unknown"

\* get_rhymes that passes on what a failed request would have answered
get_rhymes_unguarded(phrase, rhyme_type) ==
    IF RhymeKind(rhyme_type) = "unknown" THEN <<>>
    ELSE api_words(RhymeKind(rhyme_type)).words

get_rhymes(phrase, rhyme_type) ==
    IF RhymeKind(rhyme_type) = "unknown" THEN <<>>
    ELSE IF api_words(RhymeKind(rhyme_type)).ok THEN api_words(RhymeKind(rhyme_type)).words
    ELSE <<>>

\* the lookups get_rhymes issues
get_rhymes_lookups(phrase, rhyme_type) ==
    IF RhymeKind(rhyme_type) = "unknown" THEN <<>> ELSE <<<<RhymeKind(rhyme_type), phrase>>>>

common_prefixes ==
    << <<"m", "a", "d", "e">>, <<"t", "a", "k", "e">>, <<"c", "a", "m", "e">>,
       <<"l", "a", "t", "e">>, <<"h", "a", "t", "e">>, <<"g", "a", "t", "e">>,
       <<"d", "a", "t", "e">>, <<"r", "a", "t", "e">>, <<"w", "a", "i", "t">>,
       <<"s", "t", "a", "t", "e">>, <<"s", "t", "a", "y", "e", "d">>, <<"p", "l", "a", "y", "e", "d">>,
       <<"d", "e", "l", "a", "y", "e", "d">>, <<"d", "i", "s", "p", "l", "a", "y", "e", "d">>, <<"b", "e", "t", "r", "a", "y", "e", "d">>,
       <<"c", "o", "n", "v", "e", "y", "e", "d">>, <<"s", "u", "r", "v", "e", "y", "e", "d">>, <<"b", "l", "u", "e">>,
       <<"n", "e", "w">>, <<"t", "r", "u", "e">>, <<"t", "h", "r", "e", "w">>,
       <<"g", "r", "e", "w">>, <<"k", "n", "e", "w">>, <<"f", "l", "e", "w">>,
       <<"d", "r", "e", "w">>, <<"f", "e", "w">>, <<"v", "i", "e", "w">>,
       <<"b", "r", "e", "a", "k">>, <<"m", "a", "k", "e">>, <<"t", "a", "k", "e">>,
       <<"f", "a", "k", "e">>, <<"w", "a", "k", "e">>, <<"s", "h", "a", "k", "e">>,
       <<"c", "a", "k", "e">>, <<"l", "a", "k", "e">>, <<"s", "n", "a", "k", "e">>,
       <<"s", "a", "i", "d">>, <<"r", "e", "d">>, <<"b", "e", "d">>,
       <<"h", "e", "a", "d">>, <<"d", "e", "a", "d">>, <<"l", "e", "d">>,
       <<"f", "e", "d">>, <<"t", "h", "r", "e", "a", "d">>, <<"s", "p", "r", "e", "a", "d">>,
       <<"b", "r", "e", "a", "d">> >>

\* the inner loop over the prefixes from prefix k on; acc is multi_word_rhymes
RECURSIVE PrefixLoop(_, _, _, _, _)
PrefixLoop(phrase, rhyme_word, max_results, k, acc) ==
    IF k > Len(common_prefixes) THEN acc
    ELSE LET candidate == common_prefixes[k] \o <<" ">> \o rhyme_word
         IN  IF Lower(candidate) /= Lower(phrase)
             THEN IF Len(acc) + 1 >= max_results THEN Append(acc, candidate)
                  ELSE PrefixLoop(phrase, rhyme_word, max_results, k + 1, Append(acc, candidate))
             ELSE PrefixLoop(phrase, rhyme_word, max_results, k + 1, acc)

\* the first loop past one rhyming word: after is multi_word_rhymes then
RECURSIVE RhymeWordLoop(_, _, _, _, _, _)
RhymeWordStep(phrase, last_word, rhyming_words, max_results, j, after) ==
    IF Len(after) >= max_results THEN after
    ELSE RhymeWordLoop(phrase, last_word, rhyming_words, max_results, j + 1, after)

\* the first loop over the rhyming words from word j on
RhymeWordLoop(phrase, last_word, rhyming_words, max_results, j, acc) ==
    IF j > Len(rhyming_words) THEN acc
    ELSE IF Lower(rhyming_words[j]) = Lower(last_word)
         THEN RhymeWordLoop(phrase, last_word, rhyming_words, max_results, j + 1, acc)
    ELSE RhymeWordStep(phrase, last_word, rhyming_words, max_results, j,
                       PrefixLoop(phrase, rhyming_words[j], max_results, 1, acc))

\* the loop over the items of one "sp" answer from item k on
RECURSIVE ItemLoop(_, _, _, _, _)
ItemLoop(phrase, items, max_results, k, acc) ==
    IF k > Len(items) THEN acc
    ELSE IF HasSpace(items[k]) /\ Lower(items[k]) /= Lower(phrase)
         THEN IF Len(acc) + 1 >= max_results THEN Append(acc, items[k])
              ELSE ItemLoop(phrase, items, max_results, k + 1, Append(acc, items[k]))
    ELSE ItemLoop(phrase, items, max_results, k + 1, acc)

\* the second loop past one answered "sp" request: st is the list and the
\* lookups then
RECURSIVE PhraseSearchLoop(_, _, _, _, _)
PhraseSearchStep(phrase, top_words, max_results, j, st) ==
    IF Len(st.list) >= max_results THEN st
    ELSE PhraseSearchLoop(phrase, top_words, max_results, j + 1, st)

\* the second loop over rhyming_words[:5] from word j on; st.list is
\* multi_word_rhymes and st.lookups the "sp" lookups issued so far; a request
\* that raises is skipped
PhraseSearchLoop(phrase, top_words, max_results, j, st) ==
    IF j > Len(top_words) THEN st
    ELSE IF ~api_words("sp").ok
         THEN PhraseSearchLoop(phrase, top_words, max_results, j + 1,
                               [st EXCEPT !.lookups = Append(@, <<"sp", <<"*", " ">> \o top_words[j]>>)])
    ELSE PhraseSearchStep(phrase, top_words, max_results, j,
                          [list |-> ItemLoop(phrase, api_words("sp").words, max_results, 1, st.list),
                           lookups |-> Append(st.lookups, <<"sp", <<"*", " ">> \o top_words[j]>>)])

\* get_multi_word_rhymes past its guard, rhyming_words being the rhymes of
\* the last word
MultiWordRhymesOf(phrase, last_word, rhyming_words, max_results) ==
    [PhraseSearchLoop(phrase, Take(rhyming_words, 5), max_results, 1,
                      [list |-> RhymeWordLoop(phrase, last_word, rhyming_words, max_results, 1, <<>>),
                       lookups |-> get_rhymes_lookups(last_word, "perfect")])
         EXCEPT !.list = Take(@, max_results)]

\* get_multi_word_rhymes: [list |-> what it returns, lookups |-> what it asked]
get_multi_word_rhymes(phrase, max_results) ==
    LET words == Split(Strip(phrase))
    IN  IF Len(words) < 2 THEN [list |-> <<>>, lookups |-> <<>>]
        ELSE MultiWordRhymesOf(phrase, words[Len(words)],
                               get_rhymes(words[Len(words)], "perfect"), max_results)

\* the verdict _classify_rhymes asks for: the last word of a phrase stands
\* for the phrase, on either side
ClassifyPair(original, candidate) ==
    LET orig_words == Split(Strip(original))
        cand_words == Split(Strip(candidate))
    IN  _is_perfect_rhyme(IF Len(orig_words) > 1 THEN orig_words[Len(orig_words)] ELSE original,
                          IF Len(cand_words) > 1 THEN cand_words[Len(cand_words)] ELSE candidate)

\* _classify_rhymes from candidate i on
RECURSIVE ClassifyFrom(_, _, _, _)
ClassifyFrom(original, candidates, i, acc) ==
    IF i > Len(candidates) THEN acc
    ELSE IF Lower(candidates[i]) = Lower(original)
         THEN ClassifyFrom(original, candidates, i + 1, acc)
    ELSE IF ClassifyPair(original, candidates[i])
         THEN ClassifyFrom(original, candidates, i + 1,
                           [acc EXCEPT !.perfect = Append(@, candidates[i])])
    ELSE ClassifyFrom(original, candidates, i + 1,
                      [acc EXCEPT !.near = Append(@, candidates[i])])

_classify_rhymes(original, candidates) ==
    ClassifyFrom(original, candidates, 1, [perfect |-> <<>>, near |-> <<>>, slant |-> <<>>])

\* "Remove duplicates while preserving order", from candidate i on
RECURSIVE UniqueFrom(_, _, _)
UniqueFrom(all_candidates, i, unique) ==
    IF i > Len(all_candidates) THEN unique
    ELSE IF \E k \in 1..Len(unique) : Lower(unique[k]) = Lower(all_candidates[i])
         THEN UniqueFrom(all_candidates, i + 1, unique)
    ELSE UniqueFrom(all_candidates, i + 1, Append(unique, all_candidates[i]))

\* a filter that keeps the phrase itself
WithoutPhraseKeepsAll(list, phrase) == list

\* [s for s in list if s.lower() != phrase.lower()]
RECURSIVE WithoutPhrase(_, _)
WithoutPhrase(list, phrase) ==
    IF list = <<>> THEN <<>>
    ELSE IF Lower(list[1]) /= Lower(phrase) THEN <<list[1]>> \o WithoutPhrase(Tail(list), phrase)
    ELSE WithoutPhrase(Tail(list), phrase)

\* the part of get_all_rhyme_types for a phrase with a space in it: the rhymes
\* of the last word and then the multi-word rhymes
LastWordRhymes(last_word, multi_word) ==
    [list |-> get_rhymes(last_word, "perfect") \o multi_word.list,
     lookups |-> get_rhymes_lookups(last_word, "perfect") \o multi_word.lookups]

\* the end of get_all_rhyme_types: the slant answers join the classified
\* candidates and every list is cut
CutToMax(phrase, max_per_type, classified, lookups) ==
    [perfect |-> Take(classified.perfect, max_per_type),
     near |-> Take(classified.near, max_per_type),
     slant |-> Take(classified.slant \o WithoutPhrase(get_rhymes(phrase, "slant"), phrase),
                    max_per_type),
     lookups |-> lookups]

\* get_all_rhyme_types, more being what a phrase with a space in it adds
AllRhymeTypesOf(phrase, max_per_type, more) ==
    CutToMax(phrase, max_per_type,
             _classify_rhymes(phrase,
                              UniqueFrom(get_rhymes(phrase, "perfect") \o get_rhymes(phrase, "near")
                                         \o more.list, 1, <<>>)),
             get_rhymes_lookups(phrase, "perfect") \o get_rhymes_lookups(phrase, "near")
             \o get_rhymes_lookups(phrase, "slant") \o more.lookups)

\* get_all_rhyme_types: [perfect, near, slant |-> the lists, lookups |-> asked]
get_all_rhyme_types(phrase, max_per_type) ==
    LET words == Split(Strip(phrase))
    IN  IF HasSpace(phrase) /\ words /= <<>>
        THEN AllRhymeTypesOf(phrase, max_per_type,
                             LastWordRhymes(words[Len(words)],
                                            get_multi_word_rhymes(phrase, max_per_type)))
        ELSE AllRhymeTypesOf(phrase, max_per_type, [list |-> <<>>, lookups |-> <<>>])

\* RhymeEngine.get_suggestions_for_word: the mapping it returns, as a function
\* from the rhyme types present to their lists
get_suggestions_for_word(word, rhyme_type, max_results) ==
    IF rhyme_type = "all"
    THEN LET rhymes == get_all_rhyme_types(word, max_results)
         IN  [t \in {"perfect", "near", "slant"} |-> rhymes[t]]
    ELSE [t \in {rhyme_type} |-> get_rhymes(word, rhyme_type)]

----------------------------------------------------------------------------
(* RhymeEngine: the similarity scorers.  A score is an exact fraction. *)

_calculate_phonetic_similarity(word1, word2) ==
    LET phones1 == phones_for_word(Lower(word1))
        phones2 == phones_for_word(Lower(word2))
    IN  IF phones1 = <<>> \/ phones2 = <<>> THEN Zero
        ELSE LET rhyme1 == rhyming_part(phones1[1])
                 rhyme2 == rhyming_part(phones2[1])
                 min_len == Min(Len(rhyme1), Len(rhyme2))
             IN  IF rhyme1 = <<>> \/ rhyme2 = <<>> THEN Zero
                 ELSE IF rhyme1 = rhyme2 THEN One
                 ELSE IF min_len = 0 THEN Zero
                 ELSE Frac(common_suffix_length(rhyme1, rhyme2), min_len)

_calculate_consonant_similarity(word1, word2) ==
    LET phones1 == phones_for_word(word1)
        phones2 == phones_for_word(word2)
    IN  IF phones1 = <<>> \/ phones2 = <<>> THEN Zero
        ELSE LET consonants1 == ConsonantsOf(phones1[1])
                 consonants2 == ConsonantsOf(phones2[1])
                 common_consonants == SetOf(consonants1) \cap SetOf(consonants2)
                 total_consonants == SetOf(consonants1) \cup SetOf(consonants2)
                 overlap_ratio == Frac(Cardinality(common_consonants),
                                       Cardinality(total_consonants))
             IN  IF consonants1 = <<>> \/ consonants2 = <<>> THEN Zero
                 ELSE IF total_consonants = {} THEN Zero
                 ELSE IF consonants1[Len(consonants1)] = consonants2[Len(consonants2)]
                      THEN FracMin(One, FracAdd(overlap_ratio, Frac(3, 10)))
                      ELSE overlap_ratio

_calculate_vowel_similarity(word1, word2) ==
    LET phones1 == phones_for_word(word1)
        phones2 == phones_for_word(word2)
    IN  IF phones1 = <<>> \/ phones2 = <<>> THEN Zero
        ELSE LET vowels1 == VowelsOf(phones1[1])
                 vowels2 == VowelsOf(phones2[1])
                 vowel_set1 == {StripStress(v) : v \in SetOf(vowels1)}
                 vowel_set2 == {StripStress(v) : v \in SetOf(vowels2)}
                 common_vowels == vowel_set1 \cap vowel_set2
                 total_vowels == vowel_set1 \cup vowel_set2
             IN  IF vowels1 = <<>> \/ vowels2 = <<>> THEN Zero
                 ELSE IF StripStress(vowels1[Len(vowels1)])
                         = StripStress(vowels2[Len(vowels2)]) THEN One
                 ELSE IF total_vowels = {} THEN Zero
                 ELSE Frac(Cardinality(common_vowels), Cardinality(total_vowels))

_classify_internal_rhyme_strength(word1, word2) ==
    IF _is_perfect_rhyme(word1, word2) THEN One
    ELSE LET phonetic_sim == _calculate_phonetic_similarity(word1, word2)
             consonant_sim == _calculate_consonant_similarity(word1, word2)
             vowel_sim == _calculate_vowel_similarity(word1, word2)
             combined_score ==
                 FracAdd(FracAdd(FracMul(phonetic_sim, Frac(5, 10)),
                                 FracMul(consonant_sim, Frac(3, 10))),
                         FracMul(vowel_sim, Frac(2, 10)))
         IN  FracMin(One, combined_score)

----------------------------------------------------------------------------
(* RhymeEngine.sliding_ngrams *)

\* the inner loop: the windows of n words from start i on, words[i:i+n] being
\* words i+1 .. i+n of the sequence
RECURSIVE NgramsOfSize(_, _, _)
NgramsOfSize(words, n, i) ==
    IF i >= Len(words) - n + 1 THEN <<>>
    ELSE <<<<i, i + n, Join(SubSeq(words, i + 1, i + n))>>>>
         \o NgramsOfSize(words, n, i + 1)

\* the outer loop: n in range(1, min(n_max + 1, len(words) + 1))
RECURSIVE NgramsFrom(_, _, _)
NgramsFrom(words, n_max, n) ==
    IF n >= Min(n_max + 1, Len(words) + 1) THEN <<>>
    ELSE NgramsOfSize(words, n, 0) \o NgramsFrom(words, n_max, n + 1)

\* sliding_ngrams whose outer loop stops one size early
RECURSIVE NgramsFromShort(_, _, _)
NgramsFromShort(words, n_max, n) ==
    IF n >= Min(n_max, Len(words)) THEN <<>>
    ELSE NgramsOfSize(words, n, 0) \o NgramsFromShort(words, n_max, n + 1)

sliding_ngrams_short(words, n_max) == NgramsFromShort(words, n_max, 1)

sliding_ngrams(words, n_max) == NgramsFrom(words, n_max, 1)

----------------------------------------------------------------------------
(* RhymeEngine.analyze_bar.  A dict is the sequence of its items in        *)
(* insertion order, an item being [key, value]; the value of a fragment is *)
(* a function from the names of its fields, so that a field may be absent. *)

HasKey(d, k) == \E i \in 1..Len(d) : d[i].key = k

\* d[k]
Get(d, k) == d[CHOOSE i \in 1..Len(d) : d[i].key = k].value

\* d[k] = v: in place when the key is there, at the end otherwise
Put(d, k, v) ==
    IF HasKey(d, k)
    THEN [i \in 1..Len(d) |-> IF d[i].key = k THEN [key |-> k, value |-> v] ELSE d[i]]
    ELSE Append(d, [key |-> k, value |-> v])

\* list(d.keys())
Keys(d) == [i \in 1..Len(d) |-> d[i].key]

\* the item the body of the loop of analyze_bar stores for one n-gram
FragmentItem(ngram, rhymes) ==
    [key |-> ngram[3],
     value |-> [perfect |-> WithoutPhrase(rhymes.perfect, ngram[3]),
                near |-> WithoutPhrase(rhymes.near, ngram[3]),
                slant |-> WithoutPhrase(rhymes.slant, ngram[3]),
                span |-> <<ngram[1], ngram[2]>>]]

\* the value last assigned to a key
LastValue(items, k) ==
    items[CHOOSE i \in 1..Len(items) :
              /\ items[i].key = k
              /\ \A j \in (i + 1)..Len(items) : items[j].key /= k].value

\* the items of a dict after the assignments d[key] = value in this order: a
\* key has the place of its first assignment and the value of its last
Assigned(items) ==
    LET firsts == SelectSeq([i \in 1..Len(items) |-> i],
                            LAMBDA i : \A j \in 1..(i - 1) : items[j].key /= items[i].key)
    IN  [m \in 1..Len(firsts) |->
            [key |-> items[firsts[m]].key, value |-> LastValue(items, items[firsts[m]].key)]]

\* the lists one after the other
RECURSIVE Flatten(_)
Flatten(lists) == IF lists = <<>> THEN <<>> ELSE lists[1] \o Flatten(Tail(lists))

\* st after the n-grams, rhymes being what get_all_rhyme_types returned for
\* each: st.results is the dict, st.lookups what the provider was asked so far
AfterFragments(st, ngrams, rhymes) ==
    [results |-> Assigned(st.results \o [m \in 1..Len(ngrams) |-> FragmentItem(ngrams[m], rhymes[m])]),
     lookups |-> st.lookups \o Flatten([m \in 1..Len(ngrams) |-> rhymes[m].lookups])]

\* what get_all_rhyme_types returns for each n-gram in turn
RECURSIVE RhymesOfEach(_, _)
RhymesOfEach(ngrams, max_results) ==
    IF ngrams = <<>> THEN <<>>
    ELSE <<get_all_rhyme_types(ngrams[1][3], max_results)>> \o RhymesOfEach(Tail(ngrams), max_results)

\* the loop of analyze_bar over the n-grams from n-gram i on
FragmentLoop(ngrams, max_results, i, st) ==
    AfterFragments(st, SubSeq(ngrams, i, Len(ngrams)),
                   RhymesOfEach(SubSeq(ngrams, i, Len(ngrams)), max_results))

\* sum(scores)
RECURSIVE FracSum(_)
FracSum(scores) == IF scores = <<>> THEN Zero ELSE FracAdd(scores[1], FracSum(Tail(scores)))

\* the score of one pair of words of two phrases
WordScore(word1, word2) ==
    IF _is_perfect_rhyme(word1, word2) THEN One
    ELSE _calculate_phonetic_similarity(word1, word2)

\* FinalScore with every word counting the same
FinalScoreEvenWeights(word_scores) ==
    FracMul(FracSum(word_scores), Frac(1, Len(word_scores)))

\* the last word counts for 60%, the mean of the others for 40%
FinalScore(word_scores) ==
    IF Len(word_scores) = 1 THEN word_scores[1]
    ELSE FracAdd(FracMul(word_scores[1], Frac(6, 10)),
                 FracMul(FracMul(FracSum(Tail(word_scores)), Frac(1, Len(word_scores) - 1)),
                         Frac(4, 10)))

\* _score_phrase_similarity with the base score of phrases of different
\* lengths for every pair of phrases
ScoreFromLowBase(phrase1, phrase2) ==
    IF Min(Len(Split(phrase1)), Len(Split(phrase2))) = 0 THEN Zero
    ELSE FracMin(One,
                 FracAdd(Frac(3, 10),
                         FracMul(FinalScore([i \in 1..Min(Len(Split(phrase1)), Len(Split(phrase2))) |->
                                                WordScore(Split(phrase1)[Len(Split(phrase1)) - i + 1],
                                                          Split(phrase2)[Len(Split(phrase2)) - i + 1])]),
                                 Frac(5, 10))))

_score_phrase_similarity(phrase1, phrase2) ==
    LET words1 == Split(phrase1)
        words2 == Split(phrase2)
        base_score == IF Len(words1) /= Len(words2) THEN Frac(3, 10) ELSE Frac(5, 10)
        min_len == Min(Len(words1), Len(words2))
    IN  IF min_len = 0 THEN Zero
        ELSE FracMin(One,
                     FracAdd(base_score,
                             FracMul(FinalScore([i \in 1..min_len |->
                                                    WordScore(words1[Len(words1) - i + 1],
                                                              words2[Len(words2) - i + 1])]),
                                     Frac(5, 10))))

\* PhraseBucket with the tests in the opposite order
PhraseBucketLowestFirst(similarity_score) ==
    IF ~FracGE(similarity_score, 4, 10) THEN "none"
    ELSE IF FracGE(similarity_score, 4, 10) THEN "slant"
    ELSE IF FracGE(similarity_score, 6, 10) THEN "near"
    ELSE "perfect"

\* the list a phrase ending of this similarity goes to
PhraseBucket(similarity_score) ==
    IF FracGE(similarity_score, 8, 10) THEN "perfect"
    ELSE IF FracGE(similarity_score, 6, 10) THEN "near"
    ELSE IF FracGE(similarity_score, 4, 10) THEN "slant"
    ELSE "none"

\* the list the body of the loop over the ending lengths appends the
\* candidate to, "none" when the endings are the same or score too low
EndingBucket(target_ending, candidate_ending) ==
    IF Lower(target_ending) = Lower(candidate_ending) THEN "none"
    ELSE PhraseBucket(_score_phrase_similarity(target_ending, candidate_ending))

\* the appends of the loop over the ending lengths from ending_length on, for
\* one candidate: the candidate and the list of each, in the order made
Filings(target_words, candidate, candidate_words, ending_length) ==
    LET stop == Min(4, Min(Len(target_words) + 1, Len(candidate_words) + 1))
        buckets == [m \in 1..Max(0, stop - ending_length) |->
                       EndingBucket(Join(LastN(target_words, ending_length + m - 1)),
                                    Join(LastN(candidate_words, ending_length + m - 1)))]
        kept == SelectSeq(buckets, LAMBDA bucket : bucket /= "none")
    IN  [m \in 1..Len(kept) |-> [candidate |-> candidate, bucket |-> kept[m]]]

\* the list after list.append(x), for every x in order that is not in it
AppendNew(list, more) ==
    LET new == SelectSeq([i \in 1..Len(more) |-> i],
                         LAMBDA i : /\ ~InList(more[i], list)
                                    /\ \A j \in 1..(i - 1) : more[j] /= more[i])
    IN  list \o [m \in 1..Len(new) |-> more[new[m]]]

\* phrase_rhymes[bucket].append(candidate) unless it is in that list, for
\* every filing in order
WithCandidates(phrase_rhymes, filings) ==
    [rhyme_type \in {"perfect", "near", "slant"} |->
        AppendNew(phrase_rhymes[rhyme_type],
                  LET filed == SelectSeq(filings, LAMBDA filing : filing.bucket = rhyme_type)
                  IN  [m \in 1..Len(filed) |-> filed[m].candidate])]

\* the loop over the ending lengths from ending_length on, for one candidate
EndingLoop(target_words, candidate, candidate_words, ending_length, phrase_rhymes) ==
    WithCandidates(phrase_rhymes, Filings(target_words, candidate, candidate_words, ending_length))

\* the loop over the candidate phrases from candidate i on; the target
\* phrase itself is skipped
CandidateLoop(target_phrase, candidate_phrases, i, phrase_rhymes) ==
    WithCandidates(phrase_rhymes,
                   Flatten([m \in 1..(Len(candidate_phrases) + 1 - i) |->
                               IF Lower(candidate_phrases[i + m - 1]) = Lower(target_phrase)
                               THEN <<>>
                               ELSE Filings(Split(target_phrase), candidate_phrases[i + m - 1],
                                            Split(candidate_phrases[i + m - 1]), 1)]))

\* every list cut to max_results
CutLists(lists, max_results) ==
    [rhyme_type \in {"perfect", "near", "slant"} |-> Take(lists[rhyme_type], max_results)]

_find_phrase_ending_rhymes(target_phrase, candidate_phrases, max_results) ==
    CutLists(CandidateLoop(target_phrase, candidate_phrases, 1,
                           [perfect |-> <<>>, near |-> <<>>, slant |-> <<>>]),
             max_results)

\* [phrase for phrase in keys if len(phrase.split()) >= 2]
RECURSIVE MultiWordOnly(_)
MultiWordOnly(keys) ==
    IF keys = <<>> THEN <<>>
    ELSE IF Len(Split(keys[1])) >= 2 THEN <<keys[1]>> \o MultiWordOnly(Tail(keys))
    ELSE MultiWordOnly(Tail(keys))

\* value[name] = list when the list is not empty
WithField(value, name, list) == IF list /= <<>> THEN (name :> list) @@ value ELSE value

\* the phrase_ fields of a fragment, from what was found for it
WithPhraseFields(value, found) ==
    WithField(WithField(WithField(value, "phrase_perfect", found["perfect"]),
                        "phrase_near", found["near"]),
              "phrase_slant", found["slant"])

\* the loop over the multi-word phrases from phrase i on: each phrase is a
\* key of the dict and gets its phrase_ fields in place; a failure of
\* _find_phrase_ending_rhymes is caught and the phrase left as it is
RECURSIVE PhraseLoop(_, _, _, _, _)
PhraseLoop(multi_word_phrases, max_results, fault, i, enhanced_results) ==
    IF enhanced_results = <<>> THEN <<>>
    ELSE (IF /\ fault /= "phrase_ending"
             /\ InList(enhanced_results[1].key,
                       SubSeq(multi_word_phrases, i, Len(multi_word_phrases)))
          THEN <<[key |-> enhanced_results[1].key,
                  value |-> WithPhraseFields(enhanced_results[1].value,
                                             _find_phrase_ending_rhymes(enhanced_results[1].key,
                                                                        multi_word_phrases,
                                                                        max_results))]>>
          ELSE <<enhanced_results[1]>>)
         \o PhraseLoop(multi_word_phrases, max_results, fault, i, Tail(enhanced_results))

_add_multi_word_phrase_rhymes(results, max_results, fault) ==
    PhraseLoop(Take(MultiWordOnly(Keys(results)), 20), max_results, fault, 1, results)

\* sorted(infos, key=strength, reverse=True): the place of one more item,
\* behind the items at least as strong
RECURSIVE InsertByStrength(_, _)
InsertByStrength(sorted, info) ==
    IF sorted = <<>> THEN <<info>>
    ELSE IF FracGT(info.strength, sorted[1].strength) THEN <<info>> \o sorted
    ELSE <<sorted[1]>> \o InsertByStrength(Tail(sorted), info)

RECURSIVE SortByStrength(_, _)
SortByStrength(infos, sorted) ==
    IF infos = <<>> THEN sorted
    ELSE SortByStrength(Tail(infos), InsertByStrength(sorted, infos[1]))

\* word.strip(".,!?'\"").lower()
Clean(word) == Lower(StripChars(word, Punctuation))

\* InternalBucket without the near list
InternalBucketNoNear(rhyme_strength) ==
    IF FracGE(rhyme_strength, 8, 10) THEN "perfect" ELSE "slant"

\* the list an internal rhyme of this strength goes to
InternalBucket(rhyme_strength) ==
    IF FracGE(rhyme_strength, 8, 10) THEN "perfect"
    ELSE IF FracGE(rhyme_strength, 6, 10) THEN "near"
    ELSE "slant"

\* rhyme_info of the words at i < j (counted from 0); "->" stands for the
\* arrow of the pattern
RhymeInfo(word1, word2, i, j, rhyme_strength) ==
    [word1 |-> word1, word2 |-> word2, position1 |-> i, position2 |-> j,
     strength |-> rhyme_strength,
     pattern |-> Clean(word1) \o <<" ", "->", " ">> \o Clean(word2)]

\* the pair of words at i < j is skipped when a cleaned word is shorter than
\* two symbols or the strength is not above 0.3
PairKept(limited_words, i, j) ==
    /\ Len(Clean(limited_words[i + 1])) >= 2
    /\ Len(Clean(limited_words[j + 1])) >= 2
    /\ FracGT(_classify_internal_rhyme_strength(Clean(limited_words[i + 1]),
                                                Clean(limited_words[j + 1])),
              Frac(3, 10))

\* the inner loop at word i: the rhyme_info of the pairs kept, j ascending;
\* the pairs with i >= j are skipped
InnerLoop(limited_words, i) ==
    LET later == [m \in 1..(Len(limited_words) - 1 - i) |-> i + m]
        kept == SelectSeq(later, LAMBDA j : PairKept(limited_words, i, j))
    IN  [m \in 1..Len(kept) |->
            RhymeInfo(limited_words[i + 1], limited_words[kept[m] + 1], i, kept[m],
                      _classify_internal_rhyme_strength(Clean(limited_words[i + 1]),
                                                        Clean(limited_words[kept[m] + 1])))]

\* the outer loop from word i on: every rhyme_info in the order it is made
RECURSIVE PairLoop(_, _)
PairLoop(limited_words, i) ==
    IF i >= Len(limited_words) THEN <<>>
    ELSE InnerLoop(limited_words, i) \o PairLoop(limited_words, i + 1)

\* the three lists the rhyme_infos are appended to, each by its strength
IntoBuckets(infos) ==
    [rhyme_type \in {"perfect", "near", "slant"} |->
        SelectSeq(infos, LAMBDA info : InternalBucket(info.strength) = rhyme_type)]

\* every list sorted by strength and cut to max_results
SortAndCut(internal_rhymes, max_results) ==
    [rhyme_type \in {"perfect", "near", "slant"} |->
        Take(SortByStrength(internal_rhymes[rhyme_type], <<>>), max_results)]

\* _find_internal_rhymes over the whole line
_find_internal_rhymes_whole_line(text, max_results) ==
    SortAndCut(IntoBuckets(PairLoop(Split(text), 0)), max_results)

_find_internal_rhymes(text, max_results) ==
    SortAndCut(IntoBuckets(PairLoop(Take(Split(text), 15), 0)), max_results)

\* sort_key(item) < sort_key(other): (first word lower-cased, number of words)
SortKeyLess(phrase, other) ==
    LET words == Split(phrase)
        others == Split(other)
        first_word == IF words /= <<>> THEN Lower(words[1]) ELSE <<>>
        other_first == IF others /= <<>> THEN Lower(others[1]) ELSE <<>>
    IN  \/ StrLess(first_word, other_first)
        \/ first_word = other_first /\ Len(words) < Len(others)

\* InsertByKey that puts an item before the items of the same key
RECURSIVE InsertBeforeEqual(_, _)
InsertBeforeEqual(sorted_items, item) ==
    IF sorted_items = <<>> THEN <<item>>
    ELSE IF ~SortKeyLess(sorted_items[1].key, item.key) THEN <<item>> \o sorted_items
    ELSE <<sorted_items[1]>> \o InsertBeforeEqual(Tail(sorted_items), item)

\* sorted(result_items, key=sort_key): the place of one more item, behind the
\* items whose key is not greater
RECURSIVE InsertByKey(_, _)
InsertByKey(sorted_items, item) ==
    IF sorted_items = <<>> THEN <<item>>
    ELSE IF SortKeyLess(item.key, sorted_items[1].key) THEN <<item>> \o sorted_items
    ELSE <<sorted_items[1]>> \o InsertByKey(Tail(sorted_items), item)

RECURSIVE SortItems(_, _)
SortItems(result_items, sorted_items) ==
    IF result_items = <<>> THEN sorted_items
    ELSE SortItems(Tail(result_items), InsertByKey(sorted_items, result_items[1]))

_sort_results_by_base_word(results) == SortItems(results, <<>>)

\* the key the internal rhymes are stored under
InternalKey == <<"_", "i", "n", "t", "e", "r", "n", "a", "l", "_", "r", "h", "y", "m", "e", "s">>

\* the internal rhymes join the results unless the flag is off or
\* _find_internal_rhymes raises
WithInternalRhymes(bar, max_results, fault, enabled, enhanced_results) ==
    IF enabled /\ fault /= "internal"
    THEN Put(enhanced_results, InternalKey, _find_internal_rhymes(bar, max_results))
    ELSE enhanced_results

\* the enhancements of analyze_bar and its sort; st is what the loop over the
\* n-grams left, enabled the flag after _add_multi_word_phrase_rhymes
Enhanced(bar, max_results, fault, st, enabled) ==
    [value |-> _sort_results_by_base_word(
                   WithInternalRhymes(bar, max_results, fault, enabled,
                                      IF enabled
                                      THEN _add_multi_word_phrase_rhymes(st.results, max_results, fault)
                                      ELSE st.results)),
     lookups |-> st.lookups,
     enabled |-> enabled]

\* analyze_bar past its guard.  fault names what fails in this call, if
\* anything: "phrase_ending" (_find_phrase_ending_rhymes raises),
\* "add_multi_word" (_add_multi_word_phrase_rhymes raises) or "internal"
\* (_find_internal_rhymes raises).  The result is what is returned, what the
\* provider was asked, and the flag the call leaves.
AnalyzeWords(bar, words, max_results, ngram_max, fault) ==
    Enhanced(bar, max_results, fault,
             FragmentLoop(sliding_ngrams(words, ngram_max), max_results, 1,
                          [results |-> <<>>, lookups |-> <<>>]),
             enhanced_features_enabled /\ fault /= "add_multi_word")

\* analyze_bar without its guard on a line that has no word
analyze_bar_unguarded(bar, max_results, ngram_max, fault) ==
    AnalyzeWords(bar, Split(bar), max_results, ngram_max, fault)

analyze_bar(bar, max_results, ngram_max, fault) ==
    IF Split(bar) = <<>>
    THEN [value |-> <<>>, lookups |-> <<>>, enabled |-> enhanced_features_enabled]
    ELSE AnalyzeWords(bar, Split(bar), max_results, ngram_max, fault)

----------------------------------------------------------------------------
(* The classifier run on two words of an arbitrary dictionary *)

WordX == <<"a">>
WordY == <<"b">>

Phonemes ==
    { Vowel("AE", "1"), Vowel("AE", "2"), Vowel("AH", "0"), Consonant("T"), Consonant("N") }

NoCall == [op |-> "none"]

\* the sockets of the clients
Sockets == 1..MaxSockets

\* websocket_endpoint has been called for no socket
NotCalled == [websocket \in Sockets |-> [at |-> "new"]]

\* a service that knows no word
Silent == [kind \in {"rel_rhy", "rel_nry", "sl", "sp"} |-> [ok |-> TRUE, words |-> <<>>]]

InitRhyme ==
    /\ cmu = [w \in {WordX, WordY} |-> <<>>]
    /\ datamuse = Silent
    /\ enhanced_features_enabled = TRUE
    /\ overrides = <<>>
    /\ cache = <<>>
    /\ call = NoCall
    /\ ret = NoCall
    /\ active_connections = {}
    /\ endpoint = NotCalled

\* the primary pronunciation of a word of the dictionary, <<>> if it has none
Primary(w) == IF cmu[w] = <<>> THEN <<>> ELSE cmu[w][1]
DictSize == Len(Primary(WordX)) + Len(Primary(WordY))

\* the dictionary gains a phoneme at the end of a word's primary pronunciation
DictAppend(w, p) ==
    /\ call.op = "none"
    /\ DictSize < MaxPhones
    /\ cmu' = [cmu EXCEPT ![w] = <<Append(Primary(w), p)>>]
    /\ UNCHANGED <<active_connections, endpoint, overrides, cache, datamuse, enhanced_features_enabled, call, ret>>

DictGrows == \E w \in {WordX, WordY}, p \in Phonemes : DictAppend(w, p)

IsPerfectRhyme ==
    /\ call.op = "none"
    /\ call' = [op |-> "_is_perfect_rhyme", word1 |-> WordX, word2 |-> WordY]
    /\ ret' = [op |-> "_is_perfect_rhyme", value |-> _is_perfect_rhyme(WordX, WordY)]
    /\ UNCHANGED <<active_connections, endpoint, cmu, overrides, cache, datamuse, enhanced_features_enabled>>

Scorers ==
    {"_calculate_phonetic_similarity", "_calculate_consonant_similarity",
     "_calculate_vowel_similarity", "_classify_internal_rhyme_strength"}

ScoreOf(op, word1, word2) ==
    CASE op = "_calculate_phonetic_similarity" ->
             _calculate_phonetic_similarity(word1, word2)
      [] op = "_calculate_consonant_similarity" ->
             _calculate_consonant_similarity(word1, word2)
      [] op = "_calculate_vowel_similarity" ->
             _calculate_vowel_similarity(word1, word2)
      [] OTHER -> _classify_internal_rhyme_strength(word1, word2)

SimilarityScore ==
    \E op \in Scorers :
        /\ call.op = "none"
        /\ call' = [op |-> op, word1 |-> WordX, word2 |-> WordY]
        /\ ret' = [op |-> op, value |-> ScoreOf(op, WordX, WordY)]
        /\ UNCHANGED <<active_connections, endpoint, cmu, overrides, cache, datamuse, enhanced_features_enabled>>

NextRhyme == DictGrows \/ IsPerfectRhyme \/ SimilarityScore

SpecRhyme == InitRhyme /\ [][NextRhyme]_vars

----------------------------------------------------------------------------
(* The notions of the classifier as the specification words them, written  *)
(* without the loops of the code, to state the claims with.                *)

StressedAt(p) == {i \in 1..Len(p) : p[i].stress \in {"1", "2"}}
VowelsAt(p) == {i \in 1..Len(p) : p[i].stress /= ""}
ConsonantsAt(p) == {i \in 1..Len(p) : p[i].stress = ""}
Largest(S) == CHOOSE m \in S : \A n \in S : n <= m

\* the suffix from the last vowel of stress 1 or 2; the whole pronunciation
\* when no vowel is stressed
RhymingPart(p) ==
    IF StressedAt(p) = {} THEN p ELSE SubSeq(p, Largest(StressedAt(p)), Len(p))

Syllables(p) == Cardinality(VowelsAt(p))

\* the number of trailing phonemes two sequences share
CommonSuffix(r1, r2) ==
    Largest({k \in 0..Min(Len(r1), Len(r2)) :
                \A j \in 1..k : r1[Len(r1) - j + 1] = r2[Len(r2) - j + 1]})

LastConsonantsMatch(p1, p2) ==
    /\ ConsonantsAt(p1) /= {}
    /\ ConsonantsAt(p2) /= {}
    /\ p1[Largest(ConsonantsAt(p1))] = p2[Largest(ConsonantsAt(p2))]

LastVowelsMatch(p1, p2) ==
    /\ VowelsAt(p1) /= {}
    /\ VowelsAt(p2) /= {}
    /\ p1[Largest(VowelsAt(p1))].sym = p2[Largest(VowelsAt(p2))].sym

\* twice (a/b) >= c/d for the coverage of one word: syllables of its own
\* RhymingPart over its syllables, compared with num/den
CoverageAtLeast(p, num, den) ==
    Syllables(p) > 0 /\ Syllables(RhymingPart(p)) * den >= num * Syllables(p)

\* the two words the classifier was called on and their primary pronunciations
PX == Primary(WordX)
PY == Primary(WordY)
ClassifierRan == call.op = "_is_perfect_rhyme"
BothPronounced == cmu[WordX] /= <<>> /\ cmu[WordY] /= <<>>
Perfect == ret.value = TRUE

SX == Syllables(PX)
SY == Syllables(PY)
SameRhymingPart == RhymingPart(PX) = RhymingPart(PY)
SharedSuffix == CommonSuffix(RhymingPart(PX), RhymingPart(PY))

----------------------------------------------------------------------------
(* Claims about the classifier, checked under SpecRhyme *)

C6_NoSharedEndingIsNotPerfect ==
    (/\ ClassifierRan /\ BothPronounced
     /\ SharedSuffix = 0
     /\ ConsonantsAt(PX) /= {} /\ ConsonantsAt(PY) /= {} /\ ~LastConsonantsMatch(PX, PY)
     /\ VowelsAt(PX) /= {} /\ VowelsAt(PY) /= {} /\ ~LastVowelsMatch(PX, PY))
        => ~Perfect

\* C7: when both words have two or more syllables the verdict is Perfect
\* exactly when one of the five listed conditions holds, the coverage of a word
\* being the syllables of its own RhymingPart over its own syllables.
C7_Condition ==
    \/ /\ SameRhymingPart
       /\ \/ Syllables(RhymingPart(PX)) >= 2
          \/ Syllables(RhymingPart(PX)) = 1 /\ SharedSuffix >= 2
    \/ SharedSuffix >= 3
    \/ SharedSuffix >= 2 /\ Min(SX, SY) >= 3
    \/ LastConsonantsMatch(PX, PY) /\ Abs(SX - SY) <= 1
    \/ CoverageAtLeast(PX, 1, 2) /\ CoverageAtLeast(PY, 1, 2)

C7_MultiSyllableVerdict ==
    (ClassifierRan /\ BothPronounced /\ SX >= 2 /\ SY >= 2)
        => (Perfect <=> C7_Condition)

\* C8: when both words have exactly one syllable the verdict is Perfect exactly
\* when the RhymingParts are equal and of two phonemes or more, or the last
\* consonants are equal, or the last vowels are equal without their stress, or
\* the RhymingParts share two or more trailing phonemes.
C8_Condition ==
    \/ SameRhymingPart /\ Len(RhymingPart(PX)) >= 2
    \/ LastConsonantsMatch(PX, PY)
    \/ LastVowelsMatch(PX, PY)
    \/ SharedSuffix >= 2

C8_SingleSyllableVerdict ==
    (ClassifierRan /\ BothPronounced /\ SX = 1 /\ SY = 1)
        => (Perfect <=> C8_Condition)

C8_Witness ==
    /\ ClassifierRan /\ BothPronounced /\ SX = 1 /\ SY = 1
    /\ ~SameRhymingPart /\ ~LastConsonantsMatch(PX, PY) /\ SharedSuffix < 2
    /\ LastVowelsMatch(PX, PY) /\ PX[Largest(VowelsAt(PX))] /= PY[Largest(VowelsAt(PY))]
    /\ Perfect

\* C9: when one word has exactly one syllable and the other two or more, with
\* at most four syllables in the longer the verdict is Perfect exactly when
\* the RhymingParts are equal or share two trailing phonemes or the last
\* consonants match; with more than four it is Perfect exactly when both
\* coverages are at least 0.6.
C9_MixedVerdict ==
    (ClassifierRan /\ BothPronounced /\ Min(SX, SY) = 1 /\ Max(SX, SY) >= 2)
        => IF Max(SX, SY) <= 4
           THEN Perfect <=> (SameRhymingPart \/ SharedSuffix >= 2
                                \/ LastConsonantsMatch(PX, PY))
           ELSE Perfect <=> (CoverageAtLeast(PX, 3, 5) /\ CoverageAtLeast(PY, 3, 5))

\* C10: the classifier always returns a verdict, which is not Perfect when a
\* word has no pronunciation; and each similarity score is 0 when a word has
\* no pronunciation.
C10_NoPronunciationScoresNothing ==
    /\ ClassifierRan => ret.value \in BOOLEAN
    /\ (ClassifierRan /\ ~BothPronounced) => ret.value = FALSE
    /\ (call.op \in Scorers /\ ~BothPronounced) => ret.value[1] = 0

C10_Witness ==
    /\ ClassifierRan /\ cmu[WordX] = <<>> /\ cmu[WordY] /= <<>>
    /\ ret.value = FALSE

\* C27: _is_perfect_rhyme is symmetric: the verdict on the two words is the
\* verdict on the same two words in the other order.
C27_ClassifierIsSymmetric ==
    ClassifierRan => ret.value = _is_perfect_rhyme(call.word2, call.word1)

----------------------------------------------------------------------------
(* sliding_ngrams run on every list of up to MaxWords words *)

NgramWords == {<<"a">>, <<"A", "b">>, <<"c">>}


InitNgrams ==
    /\ cmu = <<>>
    /\ datamuse = Silent
    /\ enhanced_features_enabled = TRUE
    /\ overrides = <<>>
    /\ cache = <<>>
    /\ \E words \in ListsUpTo(NgramWords, MaxWords), n_max \in 0..MaxWords :
           call = [op |-> "input", words |-> words, n_max |-> n_max]
    /\ ret = NoCall
    /\ active_connections = {}
    /\ endpoint = NotCalled

SlidingNgrams ==
    /\ call.op = "input"
    /\ call' = [call EXCEPT !.op = "sliding_ngrams"]
    /\ ret' = [op |-> "sliding_ngrams", value |-> sliding_ngrams(call.words, call.n_max)]
    /\ UNCHANGED <<active_connections, endpoint, cmu, overrides, cache, datamuse, enhanced_features_enabled>>

NextNgrams == SlidingNgrams

SpecNgrams == InitNgrams /\ [][NextNgrams]_vars

\* the sum over n = 1 .. top of (W - n + 1)
RECURSIVE WindowCount(_, _)
WindowCount(W, top) == IF top <= 0 THEN 0 ELSE (W - top + 1) + WindowCount(W, top - 1)

\* the words of a window written with one blank between neighbours
RECURSIVE SpaceSeparated(_)
SpaceSeparated(ws) ==
    IF Len(ws) = 1 THEN ws[1]
    ELSE SpaceSeparated(SubSeq(ws, 1, Len(ws) - 1)) \o <<" ">> \o ws[Len(ws)]

\* C3: sliding_ngrams returns one tuple (i, i+n, the n words from i joined by
\* single blanks) for each n in 1..min(n_max, W) and each start i in 0..W-n,
\* ordered by n and then by i, and nothing else; so it returns
\* sum over n of (W - n + 1) tuples.
C3_SlidingNgramsWindows ==
    call.op = "sliding_ngrams" =>
        LET words == call.words
            W == Len(words)
            top == Min(call.n_max, W)
            out == ret.value
        IN  /\ Len(out) = WindowCount(W, top)
            /\ \A k \in 1..Len(out) :
                   LET i == out[k][1]
                       n == out[k][2] - out[k][1]
                   IN  /\ n \in 1..top
                       /\ i \in 0..(W - n)
                       /\ out[k][3] = SpaceSeparated(SubSeq(words, i + 1, i + n))
            /\ \A n \in 1..top : \A i \in 0..(W - n) :
                   \E k \in 1..Len(out) : out[k][1] = i /\ out[k][2] = i + n
            /\ \A k \in 1..Len(out), l \in 1..Len(out) :
                   k < l =>
                       LET nk == out[k][2] - out[k][1]
                           nl == out[l][2] - out[l][1]
                       IN  nk < nl \/ (nk = nl /\ out[k][1] < out[l][1])

\* four words and n_max 3 give 4 + 3 + 2 = 9 fragments
C3_Witness ==
    /\ call.op = "sliding_ngrams"
    /\ Len(call.words) = 4 /\ call.n_max = 3
    /\ Len(ret.value) = 9


----------------------------------------------------------------------------
(* The engine at work: the service answers, lines are analysed and words   *)
(* are looked up, one operation at a time.                                 *)

Bat == <<"b", "a", "t">>
BatCapital == <<"B", "a", "t">>
Cat == <<"c", "a", "t">>
Dog == <<"d", "o", "g">>

\* the entries of the CMU dictionary for these words
Pronunciations ==
    (Bat :> << <<Consonant("B"), Vowel("AE", "1"), Consonant("T")>> >>)
    @@ (Cat :> << <<Consonant("K"), Vowel("AE", "1"), Consonant("T")>> >>)
    @@ (Dog :> << <<Consonant("D"), Vowel("AO", "1"), Consonant("G")>> >>)

CatCapital == <<"C", "a", "t">>

\* the words a line is made of
BarWords == {Bat, Cat, CatCapital}

\* a line with single spaces, and one with blanks around its words
Tight(words) == Join(words)

RECURSIVE Loose(_)
Loose(words) == IF words = <<>> THEN <<"\t", " ">> ELSE <<"\t">> \o words[1] \o <<" ">> \o Loose(Tail(words))

Bars == {Tight(words) : words \in ListsUpTo(BarWords, MaxBarWords)}
        \cup {Loose(words) : words \in ListsUpTo(BarWords, 1)}

\* what the service may answer with
Candidates == {Cat, Dog, Bat \o <<" ">> \o Cat}

Kinds == {"rel_rhy", "rel_nry", "sl", "sp"}

Faults == {"phrase_ending", "add_multi_word", "internal"}

\* max_results, ngram_max and what fails, of a call of analyze_bar
AnalyzeParams ==
    {<<max_results, 3, "none">> : max_results \in 1..MaxResults}
    \cup {<<MaxResults, 1, "none">>}
    \cup {<<1, 3, fault>> : fault \in Faults}

RhymeTypes == {"all", "perfect", "near", "slant", "other"}

\* the words rhymes are asked for
SuggestWords == {CatCapital, Dog, Bat \o <<" ">> \o Cat}

Init ==
    /\ cmu = Pronunciations
    /\ datamuse = Silent
    /\ enhanced_features_enabled = TRUE
    /\ overrides = <<>>
    /\ cache = <<>>
    /\ call = NoCall
    /\ ret = NoCall
    /\ active_connections = {}
    /\ endpoint = NotCalled

\* the answers of the service, taken together
Replies == Len(datamuse["rel_rhy"].words) + Len(datamuse["rel_nry"].words)
           + Len(datamuse["sl"].words) + Len(datamuse["sp"].words)

\* the kinds of request that fail
Outages == Cardinality({kind \in Kinds : ~datamuse[kind].ok})

\* the service gains an answer to one kind of query
ProviderLearns ==
    \E kind \in Kinds, word \in Candidates :
        /\ call.op = "none"
        /\ Replies + Outages < MaxReplies
        /\ datamuse' = [datamuse EXCEPT ![kind].words = Append(@, word)]
        /\ UNCHANGED <<active_connections, endpoint, cmu, overrides, cache, enhanced_features_enabled, call, ret>>

\* the requests of one kind start to fail
ProviderFails ==
    \E kind \in Kinds :
        /\ call.op = "none"
        /\ Outages = 0
        /\ Replies + Outages < MaxReplies
        /\ datamuse' = [datamuse EXCEPT ![kind].ok = FALSE]
        /\ UNCHANGED <<active_connections, endpoint, cmu, overrides, cache, enhanced_features_enabled, call, ret>>

\* RhymeEngine(): a new engine in place of one that switched its flag off
Construct ==
    /\ call.op = "none"
    /\ ~enhanced_features_enabled
    /\ enhanced_features_enabled' = TRUE
    /\ UNCHANGED <<active_connections, endpoint, cmu, overrides, cache, datamuse, call, ret>>

AnalyzeBar ==
    \E bar \in Bars, params \in AnalyzeParams :
        /\ call.op = "none"
        /\ Len(Split(bar)) + Replies + Outages + params[1]
               + (IF params[3] = "none" THEN 0 ELSE 1) <= MaxLoad
        /\ call' = [op |-> "analyze_bar", bar |-> bar, max_results |-> params[1],
                    ngram_max |-> params[2], fault |-> params[3]]
        /\ ret' = analyze_bar(bar, params[1], params[2], params[3])
        /\ enhanced_features_enabled' = ret'.enabled
        /\ UNCHANGED <<active_connections, endpoint, cmu, overrides, cache, datamuse>>

GetSuggestionsForWord ==
    \E word \in SuggestWords, rhyme_type \in RhymeTypes, max_results \in 1..MaxResults :
        /\ call.op = "none"
        /\ call' = [op |-> "get_suggestions_for_word", word |-> word,
                    rhyme_type |-> rhyme_type, max_results |-> max_results]
        /\ ret' = [value |-> get_suggestions_for_word(word, rhyme_type, max_results)]
        /\ UNCHANGED <<active_connections, endpoint, cmu, overrides, cache, datamuse, enhanced_features_enabled>>

\* the caller has its answer; the next operation may begin
Return ==
    /\ call.op /= "none"
    /\ call' = NoCall
    /\ ret' = NoCall
    /\ UNCHANGED <<active_connections, endpoint, cmu, overrides, cache, datamuse, enhanced_features_enabled>>

Next ==
    ProviderLearns \/ ProviderFails \/ Construct \/ AnalyzeBar \/ GetSuggestionsForWord \/ Return

Spec == Init /\ [][Next]_vars


----------------------------------------------------------------------------
(* Claims about analyze_bar and get_suggestions_for_word, under Spec *)

\* the lists of a fragment entry that hold rhymes
ListNames == {"perfect", "near", "slant", "phrase_perfect", "phrase_near", "phrase_slant"}

\* the entries of a result of analyze_bar that are fragments
FragmentsOf(value) == {i \in 1..Len(value) : "span" \in DOMAIN value[i].value}

\* the text is in the list, letter case aside
ListsText(list, text) == \E k \in 1..Len(list) : Lower(list[k]) = Lower(text)

\* the service answers some rhyme query with this text in other letter case
AnswersInOtherCase(text) ==
    \E kind \in {"rel_rhy", "rel_nry", "sl"} :
        /\ datamuse[kind].ok
        /\ \E k \in 1..Len(datamuse[kind].words) :
              /\ Lower(datamuse[kind].words[k]) = Lower(text)
              /\ datamuse[kind].words[k] /= text

\* C1: whatever the line, max_results and the answers of the service, no
\* fragment entry of the result of analyze_bar has, in its perfect, near,
\* slant, phrase_perfect, phrase_near or phrase_slant list, a string equal to
\* the fragment's own text once both are lower-cased.
C1_FragmentNeverListsItself ==
    call.op = "analyze_bar" =>
        \A i \in FragmentsOf(ret.value) :
            \A name \in ListNames \cap DOMAIN ret.value[i].value :
                ~ListsText(ret.value[i].value[name], ret.value[i].key)

\* analyze_bar ran on a line one of whose fragments the service answers with,
\* in other letter case, and another fragment got a phrase_ list
C1_Witness ==
    /\ call.op = "analyze_bar"
    /\ \E i \in FragmentsOf(ret.value) : AnswersInOtherCase(ret.value[i].key)
    /\ \E i \in FragmentsOf(ret.value) : "phrase_perfect" \in DOMAIN ret.value[i].value

\* C2: for every word and every rhyme_type among 'all', 'perfect', 'near' and
\* 'slant', no list returned by get_suggestions_for_word holds the word
\* itself, letter case aside, whatever the service answers.
C2_WordNeverSuggestedForItself ==
    (call.op = "get_suggestions_for_word" /\ call.rhyme_type \in {"all", "perfect", "near", "slant"}) =>
        \A rhyme_type \in DOMAIN ret.value : ~ListsText(ret.value[rhyme_type], call.word)

\* C4: analyze_bar on a line that is empty or made of blanks only returns an
\* empty result, the call returning normally, and asks the service nothing.
C4_BlankLineIsEmpty ==
    (call.op = "analyze_bar" /\ \A i \in 1..Len(call.bar) : call.bar[i] \in Blanks) =>
        /\ ret.value = <<>>
        /\ ret.lookups = <<>>

\* analyze_bar ran on a line of blanks while the service had answers to give
C4_Witness ==
    /\ call.op = "analyze_bar"
    /\ call.bar /= <<>>
    /\ \A i \in 1..Len(call.bar) : call.bar[i] \in Blanks
    /\ Replies > 0
    /\ ret.value = <<>>

\* no two entries of the list are equal once lower-cased
NoTwoAlike(list) == \A i, j \in 1..Len(list) : Lower(list[i]) = Lower(list[j]) => i = j

\* C12: in every fragment entry returned by analyze_bar, none of the lists
\* perfect, near, slant, phrase_perfect, phrase_near and phrase_slant has two
\* entries that are equal when lower-cased, whatever duplicates or case
\* variants the service's answers or the line contain.
C12_ListsHaveNoCaseVariants ==
    call.op = "analyze_bar" =>
        \A i \in FragmentsOf(ret.value) :
            \A name \in ListNames \cap DOMAIN ret.value[i].value :
                NoTwoAlike(ret.value[i].value[name])
\* the last word of a text
LastWord(text) == Split(text)[Len(Split(text))]

\* the classifier accepts the last word of the fragment against the last
\* word of the candidate
AcceptedAsPerfect(fragment, candidate) == _is_perfect_rhyme(LastWord(fragment), LastWord(candidate))

\* C13: the bucket of a candidate in a fragment entry returned by analyze_bar
\* follows from the phonetic classification of fragment and candidate alone,
\* whichever query of the service returned it: an entry of perfect, near or
\* slant is in perfect if and only if the classifier accepts the fragment's
\* last word against the candidate's last word.
C13_BucketFollowsClassifier ==
    call.op = "analyze_bar" =>
        \A i \in FragmentsOf(ret.value) :
            \A name \in {"perfect", "near", "slant"} :
                \A k \in 1..Len(ret.value[i].value[name]) :
                    (name = "perfect") <=> AcceptedAsPerfect(ret.value[i].key, ret.value[i].value[name][k])

\* the sort key of a fragment: its first word lower-cased and its number of
\* words
FirstWordLower(phrase) == IF Split(phrase) = <<>> THEN <<>> ELSE Lower(Split(phrase)[1])
WordCount(phrase) == Len(Split(phrase))

SameKey(phrase, other) ==
    FirstWordLower(phrase) = FirstWordLower(other) /\ WordCount(phrase) = WordCount(other)

KeyBefore(phrase, other) ==
    \/ StrLess(FirstWordLower(phrase), FirstWordLower(other))
    \/ FirstWordLower(phrase) = FirstWordLower(other) /\ WordCount(phrase) < WordCount(other)

\* the place of a fragment in the order analyze_bar generates the fragments of
\* the line it was called on
GeneratedIn(ngrams, phrase) ==
    CHOOSE k \in 1..Len(ngrams) :
        /\ ngrams[k][3] = phrase
        /\ \A m \in 1..(k - 1) : ngrams[m][3] /= phrase

Generated(phrase) == GeneratedIn(sliding_ngrams(Split(call.bar), call.ngram_max), phrase)

\* C18: the fragment keys of the mapping returned by analyze_bar are in
\* ascending order of (first word lower-cased, number of words), fragments of
\* the same sort key being in the order they were generated, and
\* _sort_results_by_base_word leaves its own output as it is.
C18_FragmentsSortedByBaseWord ==
    call.op = "analyze_bar" =>
        /\ \A ngrams \in {sliding_ngrams(Split(call.bar), call.ngram_max)} :
              \A i, j \in FragmentsOf(ret.value) :
                  i < j =>
                      /\ ~KeyBefore(ret.value[j].key, ret.value[i].key)
                      /\ SameKey(ret.value[i].key, ret.value[j].key) =>
                            GeneratedIn(ngrams, ret.value[i].key) < GeneratedIn(ngrams, ret.value[j].key)
        /\ _sort_results_by_base_word(ret.value) = ret.value

\* analyze_bar returned two fragments of the same sort key and put a fragment
\* before one that was generated earlier
C18_Witness ==
    /\ call.op = "analyze_bar"
    /\ \E i, j \in FragmentsOf(ret.value) :
          i < j /\ SameKey(ret.value[i].key, ret.value[j].key)
    /\ \E i, j \in FragmentsOf(ret.value) :
          i < j /\ Generated(ret.value[i].key) > Generated(ret.value[j].key)

\* C22: a failure inside an enhancement affects the call it happens in only:
\* every call of analyze_bar starts with enhanced_features_enabled true, so
\* that both enhancements are attempted again.
C22_EveryCallStartsEnabled ==
    [][call'.op = "analyze_bar" => enhanced_features_enabled]_vars

\* the results of analyze_bar as its loop over the n-grams leaves them
BaseResults(bar, max_results, ngram_max) ==
    FragmentLoop(sliding_ngrams(Split(bar), ngram_max), max_results, 1,
                 [results |-> <<>>, lookups |-> <<>>]).results

\* every fragment of the base results is in the value with the same perfect,
\* near and slant lists and the same span
BaseKept(value, base) ==
    \A i \in 1..Len(base) :
        /\ HasKey(value, base[i].key)
        /\ \A name \in {"perfect", "near", "slant", "span"} :
              Get(value, base[i].key)[name] = base[i].value[name]

\* the internal rhymes of the line are in the value
InternalRan(value, bar, max_results) ==
    /\ HasKey(value, InternalKey)
    /\ Get(value, InternalKey) = _find_internal_rhymes(bar, max_results)

\* the phrase_ lists found for the fragments are in the value
PhraseBucketsKept(value, enhanced) ==
    \A i \in 1..Len(enhanced) :
        \A name \in {"phrase_perfect", "phrase_near", "phrase_slant"} \cap DOMAIN enhanced[i].value :
            /\ name \in DOMAIN Get(value, enhanced[i].key)
            /\ Get(value, enhanced[i].key)[name] = enhanced[i].value[name]

\* what C23 says of a call in which an enhancement failed
DegradesAlone(bar, max_results, ngram_max, fault, value) ==
    /\ BaseKept(value, BaseResults(bar, max_results, ngram_max))
    /\ fault \in {"phrase_ending", "add_multi_word"} => InternalRan(value, bar, max_results)
    /\ fault = "internal" =>
           PhraseBucketsKept(value, _add_multi_word_phrase_rhymes(
                                        BaseResults(bar, max_results, ngram_max), max_results, "none"))

\* C23: when phrase-ending scoring or internal rhyme detection fails in a call
\* of analyze_bar that attempts them, the call returns every fragment with
\* the perfect, near and slant lists and the span computed before; a failure
\* of phrase-ending scoring does not keep internal rhyme detection from
\* running in that call, and a failure of internal rhyme detection leaves the
\* phrase_ lists already added.
C23_EnhancementsFailAlone ==
    [][(/\ call'.op = "analyze_bar"
        /\ enhanced_features_enabled
        /\ call'.fault \in Faults
        /\ Split(call'.bar) /= <<>>) =>
            DegradesAlone(call'.bar, call'.max_results, call'.ngram_max, call'.fault, ret'.value)]_vars

\* the kinds of request that raise
FailedKinds == {kind \in Kinds : ~datamuse[kind].ok}

\* the entry was answered by a request that did not raise, or is a common
\* prefix put before a word that such a request for perfect rhymes answered
Answered(entry) ==
    \/ \E kind \in Kinds \ FailedKinds : InList(entry, datamuse[kind].words)
    \/ /\ "rel_rhy" \notin FailedKinds
       /\ \E p \in 1..Len(common_prefixes), k \in 1..Len(datamuse["rel_rhy"].words) :
              entry = common_prefixes[p] \o <<" ">> \o datamuse["rel_rhy"].words[k]

\* every n-gram of the line has its entry, and every entry of a list was
\* answered by a request that did not raise
EveryFragmentAnswered(value, ngrams) ==
    /\ \A i \in 1..Len(ngrams) :
          /\ HasKey(value, ngrams[i][3])
          /\ "span" \in DOMAIN Get(value, ngrams[i][3])
    /\ \A i \in FragmentsOf(value) :
          \A name \in {"perfect", "near", "slant"} :
              \A k \in 1..Len(value[i].value[name]) : Answered(value[i].value[name][k])

\* none of the lookups made for the fragment raises
NoneRaises(lookups) == \A k \in 1..Len(lookups) : lookups[k][1] \notin FailedKinds

Unaffected(phrase, max_results) == NoneRaises(get_all_rhyme_types(phrase, max_results).lookups)

\* the fragment gets no multi-word rhymes, whether or not a request raises:
\* it is one word, or no perfect rhyme is known for any word
NoPhraseSearch(phrase) == ~HasSpace(phrase) \/ datamuse["rel_rhy"].words = <<>>

\* the candidates of such a fragment when no request raises: the perfect and
\* the near rhymes the service knows, and the perfect rhymes again for the
\* last word of a fragment of several words
CandidatesKnown(phrase) ==
    UniqueFrom(datamuse["rel_rhy"].words \o datamuse["rel_nry"].words
               \o (IF HasSpace(phrase) THEN datamuse["rel_rhy"].words ELSE <<>>), 1, <<>>)

\* the lists of such a fragment when no request raises, made from what the
\* service knows without regard to which requests raise
ListsWithoutFailure(phrase, max_results, classified) ==
    [perfect |-> WithoutPhrase(Take(classified.perfect, max_results), phrase),
     near |-> WithoutPhrase(Take(classified.near, max_results), phrase),
     slant |-> WithoutPhrase(Take(classified.slant \o WithoutPhrase(datamuse["sl"].words, phrase),
                                  max_results), phrase)]

\* the lists of the fragment are those it has when no request raises
SameAsWithoutFailure(value, phrase, max_results) ==
    \A lists \in {ListsWithoutFailure(phrase, max_results,
                                       _classify_rhymes(phrase, CandidatesKnown(phrase)))} :
        \A name \in {"perfect", "near", "slant"} : value[name] = lists[name]

\* C21: a lookup of the provider that raises yields no candidate; analyze_bar
\* returns all the same, with an entry for every fragment of the line; and
\* the lists of a fragment none of whose lookups raises are the lists made
\* from the service's answers to its lookups alone, which are the same
\* whether or not the lookups of another fragment raise.
C21_ProviderFailureIsContained ==
    call.op = "analyze_bar" =>
        /\ EveryFragmentAnswered(ret.value, sliding_ngrams(Split(call.bar), call.ngram_max))
        /\ \A i \in FragmentsOf(ret.value) :
              (NoPhraseSearch(ret.value[i].key) /\ Unaffected(ret.value[i].key, call.max_results)) =>
                  SameAsWithoutFailure(ret.value[i].value, ret.value[i].key, call.max_results)

\* analyze_bar ran while the requests for phrases raise: a fragment of two
\* words made such a request, and a fragment of one word, which made none,
\* has a candidate
C21_Witness ==
    /\ call.op = "analyze_bar"
    /\ "sp" \in FailedKinds
    /\ \E k \in 1..Len(ret.lookups) : ret.lookups[k][1] = "sp"
    /\ \E i \in FragmentsOf(ret.value) :
          /\ ~HasSpace(ret.value[i].key)
          /\ Unaffected(ret.value[i].key, call.max_results)
          /\ ret.value[i].value["perfect"] \o ret.value[i].value["near"] /= <<>>


----------------------------------------------------------------------------
(* PhonemesManager: the override store and the cached lookup.  An entry of *)
(* the cache is [key, value], the key being the argument of get_phones as  *)
(* it was given; the least recently used entry comes first.                *)

\* word.lower().strip()
Normalized(word) == Strip(Lower(word))

\* the body of get_phones: the override store first, then the dictionary
get_phones_uncached(word) ==
    IF Normalized(word) \in DOMAIN overrides THEN overrides[Normalized(word)]
    ELSE phones_for_word(Normalized(word))

\* the cache has an entry for these arguments
InCache(entries, key) == \E i \in 1..Len(entries) : entries[i].key = key

\* a cache that answers with its newest entry whatever was asked
NewestValue(entries, key) == entries[Len(entries)].value

\* the value the cache holds for these arguments
CachedValue(entries, key) == entries[CHOOSE i \in 1..Len(entries) : entries[i].key = key].value

\* the entries other than that of key, in their order
RECURSIVE OtherEntries(_, _)
OtherEntries(entries, key) ==
    IF entries = <<>> THEN <<>>
    ELSE IF entries[1].key = key THEN OtherEntries(Tail(entries), key)
    ELSE <<entries[1]>> \o OtherEntries(Tail(entries), key)

\* a hit makes the entry the most recently used
Touched(entries, key) ==
    Append(OtherEntries(entries, key), [key |-> key, value |-> CachedValue(entries, key)])

\* a miss adds an entry and, the cache being full, drops the least recently
\* used one
Inserted(entries, key, value) ==
    IF Len(entries) >= maxsize THEN Append(Tail(entries), [key |-> key, value |-> value])
    ELSE Append(entries, [key |-> key, value |-> value])

\* get_phones under lru_cache: what it returns, whether the cache answered,
\* and the cache it leaves
get_phones(word) ==
    IF InCache(cache, word)
    THEN [value |-> CachedValue(cache, word), hit |-> TRUE, evicted |-> FALSE,
          cache |-> Touched(cache, word)]
    ELSE [value |-> get_phones_uncached(word), hit |-> FALSE, evicted |-> Len(cache) >= maxsize,
          cache |-> Inserted(cache, word, get_phones_uncached(word))]

\* get_rhyming_part past its lookup; <<"None">> stands for None
RhymingPartOf(phones) == IF phones /= <<>> THEN rhyming_part(phones[1]) ELSE <<"None">>

\* syllable_count past its lookup
SyllableCountOf(phones) == IF phones /= <<>> THEN syllable_count(phones[1]) ELSE 0

Zed == <<"z", "e", "d">>

\* the override stores a manager may load: none, one that contradicts the
\* dictionary on "cat", one that knows a word the dictionary lacks, and both
CatOverride == Cat :> << <<Consonant("D"), Vowel("AO", "1"), Consonant("G")>> >>
ZedOverride == Zed :> << <<Consonant("B"), Vowel("AE", "1"), Consonant("T")>> >>
OverrideStores == {<<>>, CatOverride, ZedOverride, CatOverride @@ ZedOverride}

\* the words looked up: as the dictionary writes them, capitalised, with
\* blanks around, and unknown to the dictionary
PhoneWords == {Cat, CatCapital, <<" ">> \o Cat \o <<" ">>, Bat, Dog, Zed}

InitPhones ==
    /\ cmu = Pronunciations
    /\ datamuse = Silent
    /\ enhanced_features_enabled = TRUE
    /\ overrides \in OverrideStores
    /\ cache = <<>>
    /\ call = NoCall
    /\ ret = NoCall
    /\ active_connections = {}
    /\ endpoint = NotCalled

GetPhones ==
    \E word \in PhoneWords :
        /\ call' = [op |-> "get_phones", word |-> word]
        /\ ret' = get_phones(word)
        /\ cache' = ret'.cache
        /\ UNCHANGED <<active_connections, endpoint, cmu, datamuse, enhanced_features_enabled, overrides>>

GetRhymingPart ==
    \E word \in PhoneWords :
        /\ call' = [op |-> "get_rhyming_part", word |-> word]
        /\ ret' = [value |-> RhymingPartOf(get_phones(word).value)]
        /\ cache' = get_phones(word).cache
        /\ UNCHANGED <<active_connections, endpoint, cmu, datamuse, enhanced_features_enabled, overrides>>

SyllableCount ==
    \E word \in PhoneWords :
        /\ call' = [op |-> "syllable_count", word |-> word]
        /\ ret' = [value |-> SyllableCountOf(get_phones(word).value)]
        /\ cache' = get_phones(word).cache
        /\ UNCHANGED <<active_connections, endpoint, cmu, datamuse, enhanced_features_enabled, overrides>>

\* the classifier and the phonetic scorer on words of the store
ClassifyStored ==
    \E word1 \in {Cat, Bat, Zed}, word2 \in {Cat, Bat, Dog} :
        /\ call' = [op |-> "_is_perfect_rhyme", word1 |-> word1, word2 |-> word2]
        /\ ret' = [value |-> _is_perfect_rhyme(word1, word2)]
        /\ UNCHANGED <<active_connections, endpoint, cmu, datamuse, enhanced_features_enabled, overrides, cache>>

ScoreStored ==
    \E word1 \in {Cat, Bat, Zed}, word2 \in {Cat, Bat, Dog} :
        /\ call' = [op |-> "_calculate_phonetic_similarity", word1 |-> word1, word2 |-> word2]
        /\ ret' = [value |-> _calculate_phonetic_similarity(word1, word2)]
        /\ UNCHANGED <<active_connections, endpoint, cmu, datamuse, enhanced_features_enabled, overrides, cache>>

NextPhones == GetPhones \/ GetRhymingPart \/ SyllableCount \/ ClassifyStored \/ ScoreStored

SpecPhones == InitPhones /\ [][NextPhones]_vars

----------------------------------------------------------------------------
(* Claims about the phoneme lookup, under SpecPhones *)

\* the lookup of section 4.1, without a cache: the override entry of the
\* normalised word if the store has one, the dictionary's entry otherwise,
\* nothing for an unknown word
Lookup(word) ==
    LET normalised == Strip(Lower(word))
    IN  IF normalised \in DOMAIN overrides THEN overrides[normalised]
        ELSE IF normalised \in DOMAIN cmu THEN cmu[normalised]
        ELSE <<>>

\* the phonetic-similarity ratio of two pronunciations
SimilarityOfPhones(p1, p2) ==
    IF RhymingPart(p1) = RhymingPart(p2) THEN One
    ELSE Frac(CommonSuffix(RhymingPart(p1), RhymingPart(p2)),
              Min(Len(RhymingPart(p1)), Len(RhymingPart(p2))))

\* C11: the classifier and the phonetic scorer take each word's pronunciation
\* from the lookup of section 4.1: for a word in the override store they use
\* the first pronunciation of its entry, never the dictionary's.
C11_ClassifierUsesOverride ==
    /\ call.op = "_is_perfect_rhyme" =>
          ret.value = (/\ Lookup(call.word1) /= <<>>
                       /\ Lookup(call.word2) /= <<>>
                       /\ PerfectRhymeOfPhones(Lookup(call.word1)[1], Lookup(call.word2)[1]))
    /\ call.op = "_calculate_phonetic_similarity" =>
          IF Lookup(call.word1) = <<>> \/ Lookup(call.word2) = <<>> THEN FracEq(ret.value, Zero)
          ELSE FracEq(ret.value, SimilarityOfPhones(Lookup(call.word1)[1], Lookup(call.word2)[1]))

\* C19: whatever calls, insertions and evictions came before, get_phones
\* returns what the uncached lookup returns for the word, so two calls whose
\* words normalise to the same word return the same list; every entry the
\* cache holds is that list too; a miss returns an empty list.
C19_CacheIsTransparent ==
    /\ call.op = "get_phones" => ret.value = Lookup(call.word)
    /\ \A i \in 1..Len(cache) : cache[i].value = Lookup(cache[i].key)

\* get_phones was answered by the cache for a word written otherwise than its
\* override entry, after the cache had been full
C19_Witness ==
    /\ call.op = "get_phones"
    /\ ret.hit
    /\ Len(cache) = maxsize
    /\ call.word /= Normalized(call.word)
    /\ Normalized(call.word) \in DOMAIN overrides
    /\ cache[1].value /= ret.value

\* C20: the cache is keyed by the normalised word and bounded: it never holds
\* more than maxsize entries, nor two entries for words that normalise to the
\* same word.
C20_CacheKeyedByNormalisedWord ==
    /\ Len(cache) <= maxsize
    /\ \A i, j \in 1..Len(cache) :
          Normalized(cache[i].key) = Normalized(cache[j].key) => i = j

----------------------------------------------------------------------------
(* RhymeEngine's scoring, phrase matching, internal rhymes and ordering,   *)
(* each called on its own over a dictionary of eight words.                *)

The == <<"t", "h", "e">>
Sofa == <<"s", "o", "f", "a">>
Guarantee == <<"g", "u", "a", "r", "a", "n", "t", "e", "e">>
Jamboree == <<"j", "a", "m", "b", "o", "r", "e", "e">>
Referee == <<"r", "e", "f", "e", "r", "e", "e">>

\* the entries of the CMU dictionary for bat, cat, dog, the, sofa, guarantee,
\* jamboree and referee
Lexicon ==
    Pronunciations
    @@ (The :> << <<Consonant("DH"), Vowel("AH", "0")>> >>)
    @@ (Sofa :> << <<Consonant("S"), Vowel("OW", "1"), Consonant("F"), Vowel("AH", "0")>> >>)
    @@ (Guarantee :> << <<Consonant("G"), Vowel("EH", "2"), Consonant("R"), Vowel("AH", "0"),
                         Consonant("N"), Consonant("T"), Vowel("IY", "1")>> >>)
    @@ (Jamboree :> << <<Consonant("JH"), Vowel("AE", "2"), Consonant("M"), Consonant("B"),
                        Vowel("ER", "0"), Vowel("IY", "1")>> >>)
    @@ (Referee :> << <<Consonant("R"), Vowel("EH", "2"), Consonant("F"), Vowel("ER", "0"),
                       Vowel("IY", "1")>> >>)

\* the longest phrase scored
MaxPhraseWords == 3

\* the words of the phrases scored: one the dictionary lacks among them
ScoreWords == {The, Sofa, Zed}

\* the phrases scored, the empty one among them
ScorePhrases == {Join(l) : l \in ListsUpTo(ScoreWords, MaxPhraseWords)}

InitEngine ==
    /\ cmu = Lexicon
    /\ datamuse = Silent
    /\ enhanced_features_enabled = TRUE
    /\ overrides = <<>>
    /\ cache = <<>>
    /\ call = NoCall
    /\ ret = NoCall
    /\ active_connections = {}
    /\ endpoint = NotCalled

ScorePhraseSimilarity ==
    /\ call.op = "none"
    /\ \E phrase1 \in ScorePhrases, phrase2 \in ScorePhrases :
        /\ call' = [op |-> "_score_phrase_similarity", phrase1 |-> phrase1, phrase2 |-> phrase2]
        /\ ret' = [value |-> _score_phrase_similarity(phrase1, phrase2)]
        /\ UNCHANGED <<active_connections, endpoint, cmu, datamuse, enhanced_features_enabled, overrides, cache>>

\* the longest line whose fragments are matched against each other
MaxLineWords == 3

\* the words of those lines
LineWords == {Cat, The, Sofa}

\* the fragments of two words and more of a line, as
\* _add_multi_word_phrase_rhymes collects them from the results
MultiWordFragments(words) ==
    Take(MultiWordOnly([i \in 1..Len(sliding_ngrams(words, 3)) |-> sliding_ngrams(words, 3)[i][3]]), 20)

\* the same for a line analysed with another ngram_max
FragmentsUpTo(words, ngram_max) ==
    Take(MultiWordOnly([i \in 1..Len(sliding_ngrams(words, ngram_max)) |->
                           sliding_ngrams(words, ngram_max)[i][3]]), 20)

\* lines analysed with ngram_max = 4, which gives fragments of four words
FourGramLines == {<<Sofa, The, Cat, The, CatCapital>>}

\* the lists of fragments one call of _add_multi_word_phrase_rhymes works on
PhraseFamilies ==
    {MultiWordFragments(words) : words \in ListsUpTo(LineWords, MaxLineWords)}
    \cup {FragmentsUpTo(words, 4) : words \in FourGramLines}

FindPhraseEndingRhymes ==
    /\ call.op = "none"
    /\ \E candidate_phrases \in PhraseFamilies, max_results \in 1..MaxResults :
        \E i \in 1..Len(candidate_phrases) :
            /\ call' = [op |-> "_find_phrase_ending_rhymes",
                        target_phrase |-> candidate_phrases[i],
                        candidate_phrases |-> candidate_phrases,
                        max_results |-> max_results]
            /\ ret' = [value |-> _find_phrase_ending_rhymes(candidate_phrases[i],
                                                            candidate_phrases, max_results)]
            /\ UNCHANGED <<active_connections, endpoint, cmu, datamuse, enhanced_features_enabled, overrides, cache>>

\* the lines searched for internal rhymes: a run of one-letter words, none
\* or up to MaxPad of them, then up to MaxTailWords words
MaxPad == 14
MaxTailWords == 3

A == <<"a">>
CatComma == <<"C", "a", "t", ",">>

TailWords == {CatComma, The, Sofa, Guarantee, Jamboree, Referee}

Pad(n) == [i \in 1..n |-> A]

InternalLines ==
    {Join(Pad(n) \o tail) : n \in {0, MaxPad - 1, MaxPad}, tail \in ListsUpTo(TailWords, MaxTailWords)}

FindInternalRhymes ==
    /\ call.op = "none"
    /\ \E text \in InternalLines, max_results \in 1..MaxResults :
        /\ call' = [op |-> "_find_internal_rhymes", text |-> text, max_results |-> max_results]
        /\ ret' = [value |-> _find_internal_rhymes(text, max_results)]
        /\ UNCHANGED <<active_connections, endpoint, cmu, datamuse, enhanced_features_enabled, overrides, cache>>

NextEngine == ScorePhraseSimilarity \/ FindPhraseEndingRhymes \/ FindInternalRhymes \/ Return

SpecEngine == InitEngine /\ [][NextEngine]_vars

----------------------------------------------------------------------------
(* Claims about the engine's functions, under SpecEngine *)

\* the phonetic-similarity ratio of two words: the common trailing phonemes of
\* the rhyming parts over the length of the shorter one, 0 without a
\* pronunciation
PhoneticRatio(word1, word2) ==
    IF phones_for_word(Lower(word1)) = <<>> \/ phones_for_word(Lower(word2)) = <<>> THEN Zero
    ELSE SimilarityOfPhones(phones_for_word(Lower(word1))[1], phones_for_word(Lower(word2))[1])

\* the score of a pair of words: 1 if the classifier accepts it
PairScore(word1, word2) ==
    IF _is_perfect_rhyme(word1, word2) THEN One ELSE PhoneticRatio(word1, word2)

\* the scores of the pairs aligned from the end inward
AlignedScores(words1, words2) ==
    [i \in 1..Min(Len(words1), Len(words2)) |->
        PairScore(words1[Len(words1) + 1 - i], words2[Len(words2) + 1 - i])]

Mean(scores) == FracMul(FracSum(scores), Frac(1, Len(scores)))

\* one score as it is, otherwise 60% of the last words' and 40% of the mean
\* of the others
Combined(scores) ==
    IF Len(scores) = 1 THEN scores[1]
    ELSE FracAdd(FracMul(Frac(6, 10), scores[1]), FracMul(Frac(4, 10), Mean(Tail(scores))))

BaseScore(words1, words2) == IF Len(words1) = Len(words2) THEN Frac(5, 10) ELSE Frac(3, 10)

ExpectedPhraseScore(words1, words2) ==
    FracMin(One, FracAdd(BaseScore(words1, words2),
                         FracMul(Frac(5, 10), Combined(AlignedScores(words1, words2)))))

\* C14: for non-empty phrases _score_phrase_similarity returns
\* min(1, base + 0.5 * combined), base being 0.5 for phrases of as many words
\* and 0.3 otherwise, combined the score of the one pair of words or 60% of
\* the last words' score plus 40% of the mean of the other scores; the result
\* lies between 0 and 1.
C14_PhraseScoreFormula ==
    (/\ call.op = "_score_phrase_similarity"
     /\ Split(call.phrase1) /= <<>>
     /\ Split(call.phrase2) /= <<>>) =>
        /\ FracEq(ret.value, ExpectedPhraseScore(Split(call.phrase1), Split(call.phrase2)))
        /\ FracGE(ret.value, 0, 1)
        /\ FracGE(One, ret.value[1], ret.value[2])

\* two phrases of three words and more were scored, the pairs of words
\* scoring differently, and the result is neither the base score nor 1
C14_Witness ==
    /\ call.op = "_score_phrase_similarity"
    /\ Len(Split(call.phrase1)) >= 3
    /\ Len(Split(call.phrase2)) >= 3
    /\ \E i, j \in 1..3 :
          ~FracEq(AlignedScores(Split(call.phrase1), Split(call.phrase2))[i],
                  AlignedScores(Split(call.phrase1), Split(call.phrase2))[j])
    /\ FracGT(ret.value, Frac(5, 10))
    /\ FracGT(One, ret.value)

\* the category a score qualifies for first
CategoryOf(score) ==
    IF FracGE(score, 8, 10) THEN "perfect"
    ELSE IF FracGE(score, 6, 10) THEN "near"
    ELSE IF FracGE(score, 4, 10) THEN "slant"
    ELSE "none"

\* the last n words of a phrase, as text
Ending(phrase, n) == Join(LastN(Split(phrase), n))

\* the ending lengths examined for a target and a candidate: 1 to 3, within
\* both phrases, the two endings differing
Examined(target, candidate) ==
    {n \in 1..Min(3, Min(Len(Split(target)), Len(Split(candidate)))) :
        Lower(Ending(target, n)) /= Lower(Ending(candidate, n))}

\* some ending length examined puts the candidate in this category
Qualifies(target, candidate, name) ==
    /\ Lower(candidate) /= Lower(target)
    /\ \E n \in Examined(target, candidate) :
          CategoryOf(_score_phrase_similarity(Ending(target, n), Ending(candidate, n))) = name

\* no string is twice in the list
NoRepeat(list) == \A i, j \in 1..Len(list) : list[i] = list[j] => i = j

\* C15: each list returned by _find_phrase_ending_rhymes holds candidates
\* that some examined ending length puts in that very category, the first one
\* the score qualifies for (perfect from 0.8, near from 0.6, slant from 0.4),
\* every such candidate being there unless the list is full; no list holds a
\* candidate twice nor more than max_results entries.
C15_PhraseEndingCategories ==
    call.op = "_find_phrase_ending_rhymes" =>
        \A name \in {"perfect", "near", "slant"} :
            /\ Len(ret.value[name]) <= call.max_results
            /\ NoRepeat(ret.value[name])
            /\ \A k \in 1..Len(ret.value[name]) :
                  /\ InList(ret.value[name][k], call.candidate_phrases)
                  /\ Qualifies(call.target_phrase, ret.value[name][k], name)
            /\ \A k \in 1..Len(call.candidate_phrases) :
                  Qualifies(call.target_phrase, call.candidate_phrases[k], name) =>
                      \/ InList(call.candidate_phrases[k], ret.value[name])
                      \/ Len(ret.value[name]) = call.max_results

\* the ending lengths examined that put the candidate in this category
QualifyingLengths(target, candidate, name) ==
    {n \in Examined(target, candidate) :
        CategoryOf(_score_phrase_similarity(Ending(target, n), Ending(candidate, n))) = name}

\* a candidate qualified for one category by two ending lengths and is in
\* its list, which was cut to max_results and so lacks another candidate
C15_Witness ==
    /\ call.op = "_find_phrase_ending_rhymes"
    /\ \E name \in {"perfect", "near", "slant"} :
          /\ \E k \in 1..Len(ret.value[name]) :
                Cardinality(QualifyingLengths(call.target_phrase, ret.value[name][k], name)) >= 2
          /\ \E k \in 1..Len(call.candidate_phrases) :
                /\ Qualifies(call.target_phrase, call.candidate_phrases[k], name)
                /\ ~InList(call.candidate_phrases[k], ret.value[name])

\* the hits of a result of _find_internal_rhymes, all lists together
Hits(value) ==
    UNION {SetOf(value[name]) : name \in {"perfect", "near", "slant"}}

\* the hit names two words of the line by their places, among the first 15
PlacedIn(hit, words) ==
    /\ 0 <= hit.position1
    /\ hit.position1 < hit.position2
    /\ hit.position2 <= 14
    /\ hit.position2 < Len(words)
    /\ hit.word1 = words[hit.position1 + 1]
    /\ hit.word2 = words[hit.position2 + 1]

\* C16: every hit of _find_internal_rhymes has 0 <= position1 < position2 <= 14
\* and its word1 and word2 are the words of the line at those indices, however
\* long the line.
C16_InternalPositions ==
    call.op = "_find_internal_rhymes" =>
        \A words \in {Split(call.text)}, hit \in Hits(ret.value) : PlacedIn(hit, words)

\* the 16th word of the line rhymes with the 15th
SixteenthRhymes(words) ==
    /\ Len(words) > 15
    /\ FracGT(_classify_internal_rhyme_strength(Clean(words[15]), Clean(words[16])), Frac(3, 10))

\* the line has more than 15 words, its 15th is in a hit, its 16th rhymes
\* with the 15th, and the lists are not full
C16_Witness ==
    /\ call.op = "_find_internal_rhymes"
    /\ \E hit \in Hits(ret.value) : hit.position2 = 14
    /\ SixteenthRhymes(Split(call.text))
    /\ Cardinality(Hits(ret.value)) < call.max_results

\* the strength of the pair of words at two places of a line
StrengthAt(words, i, j) == _classify_internal_rhyme_strength(Clean(words[i + 1]), Clean(words[j + 1]))

\* the list a strength belongs to
ListOfStrength(strength) ==
    IF FracGE(strength, 8, 10) THEN "perfect"
    ELSE IF FracGE(strength, 6, 10) THEN "near"
    ELSE "slant"

\* the pair of words at i < j is kept: both cleaned tokens have two symbols or
\* more and the strength is above 0.3
Kept(words, i, j) ==
    /\ Len(Clean(words[i + 1])) >= 2
    /\ Len(Clean(words[j + 1])) >= 2
    /\ FracGT(StrengthAt(words, i, j), Frac(3, 10))

\* the hit is a kept pair of the line with its strength, in the list of that
\* strength, the strength being 1 when the classifier accepts the pair
HitBelongs(hit, words, name) ==
    /\ Kept(words, hit.position1, hit.position2)
    /\ FracEq(hit.strength, StrengthAt(words, hit.position1, hit.position2))
    /\ ListOfStrength(hit.strength) = name
    /\ _is_perfect_rhyme(Clean(hit.word1), Clean(hit.word2)) => hit.strength = One

\* a kept pair of the list's range is in the list, unless the list is full of
\* pairs at least as strong
NothingStrongerLeftOut(value, words, max_results) ==
    \A i, j \in 0..(Min(15, Len(words)) - 1) :
        (i < j /\ Len(Clean(words[i + 1])) >= 2 /\ Len(Clean(words[j + 1])) >= 2) =>
            \A strength \in {StrengthAt(words, i, j)} :
                FracGT(strength, Frac(3, 10)) =>
                    \A list \in {value[ListOfStrength(strength)]} :
                        \/ \E k \in 1..Len(list) : list[k].position1 = i /\ list[k].position2 = j
                        \/ /\ Len(list) = max_results
                           /\ \A k \in 1..Len(list) : ~FracGT(strength, list[k].strength)

\* C17: every hit of _find_internal_rhymes is a pair whose cleaned tokens
\* both have length >= 2 and whose strength is > 0.3; it is in perfect from
\* 0.8, in near from 0.6 and in slant below; a pair the classifier accepts has
\* strength 1; each list is in descending order of strength and has at most
\* max_results hits, the strongest kept pairs of its range.
C17_InternalBuckets ==
    call.op = "_find_internal_rhymes" =>
        \A words \in {Split(call.text)} :
            /\ \A name \in {"perfect", "near", "slant"} :
                  /\ Len(ret.value[name]) <= call.max_results
                  /\ \A k \in 1..Len(ret.value[name]) :
                        /\ HitBelongs(ret.value[name][k], words, name)
                        /\ k > 1 => ~FracGT(ret.value[name][k].strength,
                                            ret.value[name][k - 1].strength)
            /\ NothingStrongerLeftOut(ret.value, words, call.max_results)

\* a kept pair of the line belongs to near and is not among the hits
NearPairLeftOut(list, words) ==
    \E i, j \in 0..(Len(words) - 1) :
        /\ i < j
        /\ Kept(words, i, j)
        /\ ListOfStrength(StrengthAt(words, i, j)) = "near"
        /\ \A k \in 1..Len(list) : list[k].position1 /= i \/ list[k].position2 /= j

\* three pairs of a line went to near, the last one found being the
\* strongest: it comes first, and the cut to max_results leaves one out
C17_Witness ==
    /\ call.op = "_find_internal_rhymes"
    /\ Len(ret.value["near"]) = 2
    /\ FracGT(ret.value["near"][1].strength, ret.value["near"][2].strength)
    /\ ret.value["near"][1].position1 > ret.value["near"][2].position1
    /\ NearPairLeftOut(ret.value["near"], Split(call.text))

\* the lists of _find_phrase_ending_rhymes before they are cut
Uncut(target, candidates) ==
    CandidateLoop(target, candidates, 1, [perfect |-> <<>>, near |-> <<>>, slant |-> <<>>])

\* the candidate's ending of n words is compared with the target's: both
\* endings have n words, the score is 0.5 or more, and the candidate is in the
\* list of that score, and in the list returned unless that one is full
EndingIsKept(target, candidate, n, score, uncut, value, max_results) ==
    /\ Len(Split(Ending(target, n))) = n
    /\ Len(Split(Ending(candidate, n))) = n
    /\ FracGE(score, 5, 10)
    /\ CategoryOf(score) /= "none"
    /\ InList(candidate, uncut[CategoryOf(score)])
    /\ \/ InList(candidate, value[CategoryOf(score)])
       \/ Len(value[CategoryOf(score)]) = max_results

\* C28: for every target and every candidate other than the target,
\* _find_phrase_ending_rhymes compares the endings of each length from 1 to
\* min(3, words of the target, words of the candidate) unless they are equal
\* letter case aside; the endings compared have as many words, so the score
\* is at least 0.5 and the candidate goes to a category; and a candidate is
\* in a list only by an ending length of that range.
C28_ExaminedEndingsAreKept ==
    call.op = "_find_phrase_ending_rhymes" =>
        \A uncut \in {Uncut(call.target_phrase, call.candidate_phrases)} :
            /\ \A k \in 1..Len(call.candidate_phrases) :
                  Lower(call.candidate_phrases[k]) /= Lower(call.target_phrase) =>
                      \A n \in Examined(call.target_phrase, call.candidate_phrases[k]) :
                          \A score \in {_score_phrase_similarity(Ending(call.target_phrase, n),
                                                                  Ending(call.candidate_phrases[k], n))} :
                              EndingIsKept(call.target_phrase, call.candidate_phrases[k], n,
                                           score, uncut, ret.value, call.max_results)
            /\ \A name \in {"perfect", "near", "slant"} :
                  \A k \in 1..Len(uncut[name]) :
                      Qualifies(call.target_phrase, uncut[name][k], name)

\* the endings of n words differ as written and are equal letter case aside
SkippedForCase(target, candidate, n) ==
    /\ n <= Min(3, Min(Len(Split(target)), Len(Split(candidate))))
    /\ Ending(target, n) /= Ending(candidate, n)
    /\ Lower(Ending(target, n)) = Lower(Ending(candidate, n))

\* a target of four words met a candidate of four words whose last words
\* score nothing, so that the score is 0.5 and it goes to slant, and a
\* candidate one of whose
\* endings was skipped for being the target's in other letter case while a longer
\* ending was compared
C28_Witness ==
    /\ call.op = "_find_phrase_ending_rhymes"
    /\ Len(Split(call.target_phrase)) >= 4
    /\ \E k \in 1..Len(call.candidate_phrases) :
          /\ Len(Split(call.candidate_phrases[k])) >= 4
          /\ 1 \in Examined(call.target_phrase, call.candidate_phrases[k])
          /\ FracEq(_score_phrase_similarity(Ending(call.target_phrase, 1),
                                             Ending(call.candidate_phrases[k], 1)), Frac(5, 10))
          /\ InList(call.candidate_phrases[k],
                    Uncut(call.target_phrase, call.candidate_phrases)["slant"])
    /\ \E k \in 1..Len(call.candidate_phrases) :
          /\ SkippedForCase(call.target_phrase, call.candidate_phrases[k], 1)
          /\ 3 \in Examined(call.target_phrase, call.candidate_phrases[k])

\* C29: a candidate is in at most one of the lists perfect, near and slant
\* that _find_phrase_ending_rhymes returns for a target.
C29_OneCategoryPerCandidate ==
    call.op = "_find_phrase_ending_rhymes" =>
        \A name, other \in {"perfect", "near", "slant"} :
            name /= other =>
                \A k \in 1..Len(ret.value[name]) : ~InList(ret.value[name][k], ret.value[other])

----------------------------------------------------------------------------
(* analyze_bar on lines long enough to make more than twenty multi-word    *)
(* fragments, the words of the line being letters the dictionary does not  *)
(* know.                                                                   *)

MaxLongWords == 12

Letters == <<"a", "b", "c", "d", "e", "f", "g", "h", "i", "j", "k", "l", "m", "n">>

\* the line of the first n letters
LongBar(n) == Join([i \in 1..n |-> <<Letters[i]>>])

LongBars == {LongBar(n) : n \in 1..MaxLongWords}

SixWords == << <<"u">>, <<"v">>, <<"w">>, <<"x">>, <<"y">>, <<"z">> >>

\* what the service does during a run: it knows no word; it knows six rhymes
\* of every word and its phrase search fails; it knows six rhymes and a phrase
LongProviders ==
    { Silent,
      [Silent EXCEPT !["rel_rhy"].words = SixWords, !["sp"].ok = FALSE],
      [Silent EXCEPT !["rel_rhy"].words = SixWords, !["sp"].words = <<Bat \o <<" ">> \o Cat>>] }

InitLong ==
    /\ cmu = Pronunciations
    /\ datamuse \in LongProviders
    /\ enhanced_features_enabled = TRUE
    /\ overrides = <<>>
    /\ cache = <<>>
    /\ call = NoCall
    /\ ret = NoCall
    /\ active_connections = {}
    /\ endpoint = NotCalled

AnalyzeLongBar ==
    \E bar \in LongBars, max_results \in 1..MaxResults, ngram_max \in 2..4 :
        /\ call.op = "none"
        /\ call' = [op |-> "analyze_bar", bar |-> bar, max_results |-> max_results,
                    ngram_max |-> ngram_max, fault |-> "none"]
        /\ ret' = analyze_bar(bar, max_results, ngram_max, "none")
        /\ enhanced_features_enabled' = ret'.enabled
        /\ UNCHANGED <<active_connections, endpoint, cmu, overrides, cache, datamuse>>

NextLong == AnalyzeLongBar \/ Return

SpecLong == InitLong /\ [][NextLong]_vars

----------------------------------------------------------------------------
(* Claims about the caps of analyze_bar, under SpecLong *)

\* the multi-word fragments of a line in the order they are made, each once
RECURSIVE Once(_, _)
Once(keys, seen) ==
    IF keys = <<>> THEN seen
    ELSE IF InList(keys[1], seen) THEN Once(Tail(keys), seen)
    ELSE Once(Tail(keys), Append(seen, keys[1]))

MultiWordFragmentsOf(bar, ngram_max) ==
    LET ngrams == sliding_ngrams(Split(bar), ngram_max)
    IN  Once(MultiWordOnly([i \in 1..Len(ngrams) |-> ngrams[i][3]]), <<>>)

\* the multi-word fragments past the twentieth
PastTheCap(fragments) == {fragments[i] : i \in 21..Len(fragments)}

\* the provider was not asked about the fragment
NoLookupFor(fragment, lookups) == \A k \in 1..Len(lookups) : lookups[k][2] /= fragment

PhraseFields == {"phrase_perfect", "phrase_near", "phrase_slant"}

\* the fragment took no part in the phrase-ending scoring: it has no phrase_
\* field and is in no phrase_ field of another fragment
NotScored(fragment, value) ==
    \A i \in FragmentsOf(value) :
        /\ value[i].key = fragment => DOMAIN value[i].value \cap PhraseFields = {}
        /\ \A name \in DOMAIN value[i].value \cap PhraseFields :
               ~InList(fragment, value[i].value[name])

\* the phrase searches made for one phrase
PhraseSearches(lookups) == Len(SelectSeq(lookups, LAMBDA lookup : lookup[1] = "sp"))

\* C24: in a call of analyze_bar a multi-word fragment past the twentieth gets
\* no provider lookup and takes no part in the phrase-ending scoring, and for
\* no phrase are more than five rhyme words used for phrase searches.
C24_CapsBoundTheWork ==
    call.op = "analyze_bar" =>
        /\ \A fragment \in PastTheCap(MultiWordFragmentsOf(call.bar, call.ngram_max)) :
               /\ NoLookupFor(fragment, ret.lookups)
               /\ NotScored(fragment, ret.value)
        /\ \A i \in FragmentsOf(ret.value) :
               PhraseSearches(get_multi_word_rhymes(ret.value[i].key, call.max_results).lookups) <= 5

----------------------------------------------------------------------------
(* api/routes.py: POST /analyze.  An exception is a record; the response   *)
(* is the status and the body or the detail, with what became of the call  *)
(* of the engine.                                                          *)

\* the lines a request may carry: lines of words, and lines with no word
BlankBars == {<<>>, <<" ">>, <<"\t", " ">>}

ApiBars == Bars \cup BlankBars

\* what fails during a request, if anything: one of the helpers analyze_bar
\* guards, or analyze_bar itself
ApiFaults == {"none", "raises"} \cup Faults

ApiProviders == {Silent, [Silent EXCEPT !["rel_rhy"].words = <<Cat, Dog>>]}

\* raise HTTPException(status_code, detail); HTTPException is an Exception
HTTPException(status_code, detail) ==
    [type |-> "HTTPException", status_code |-> status_code, detail |-> detail]

\* RhymeInfo(**value): the error of validation when the required span is
\* missing, the model with the phrase_ fields defaulting to [] otherwise
RhymeInfoFields == {"perfect", "near", "slant", "phrase_perfect", "phrase_near", "phrase_slant"}

ValidRhymeInfo(value) == "span" \in DOMAIN value

RhymeInfoOf(value) ==
    [name \in RhymeInfoFields \cup {"span"} |->
        IF name \in DOMAIN value THEN value[name] ELSE <<>>]

\* AnalyzeResponse(fragments=fragments, original_bar=bar): raises when an
\* entry of fragments is not valid as a RhymeInfo
AnalyzeResponse(fragments, bar) ==
    IF \A i \in 1..Len(fragments) : ValidRhymeInfo(fragments[i].value)
    THEN [raised |-> FALSE,
          value |-> [fragments |-> [i \in 1..Len(fragments) |->
                                       [key |-> fragments[i].key,
                                        value |-> RhymeInfoOf(fragments[i].value)]],
                     original_bar |-> bar]]
    ELSE [raised |-> TRUE, exception |-> [type |-> "ValidationError"]]

\* the try block of the route past the test of the bar: engine is what
\* rhyme_engine.analyze_bar returned
RespondWith(engine, bar) ==
    [engine |-> "returned"] @@ AnalyzeResponse(engine.value, bar)

\* the try block of the route: what it returns or raises, and whether the
\* engine was called, returned or raised
TryAnalyze(bar, max_results, ngram_max, fault) ==
    IF Strip(bar) = <<>>
    THEN [raised |-> TRUE, exception |-> HTTPException(400, "Bar cannot be empty"),
          engine |-> "not called"]
    ELSE IF fault = "raises"
    THEN [raised |-> TRUE, exception |-> [type |-> "Exception"], engine |-> "raised"]
    ELSE RespondWith(analyze_bar(bar, max_results, ngram_max, fault), bar)

\* except Exception: every exception of the try block, the HTTPException of
\* the blank bar included, becomes the 500 response
Handled(tried) ==
    IF tried.raised
    THEN [status |-> 500, detail |-> "Internal server error", engine |-> tried.engine]
    ELSE [status |-> 200, body |-> tried.value, engine |-> tried.engine]

\* the flag the request leaves
FlagAfter(bar, max_results, ngram_max, fault) ==
    IF Strip(bar) = <<>> \/ fault = "raises" THEN enhanced_features_enabled
    ELSE analyze_bar(bar, max_results, ngram_max, fault).enabled

InitApi ==
    /\ cmu = Pronunciations
    /\ datamuse \in ApiProviders
    /\ enhanced_features_enabled = TRUE
    /\ overrides = <<>>
    /\ cache = <<>>
    /\ call = NoCall
    /\ ret = NoCall
    /\ active_connections = {}
    /\ endpoint = NotCalled

PostAnalyze ==
    \E bar \in ApiBars, max_results \in 1..MaxResults, fault \in ApiFaults :
        /\ call.op = "none"
        /\ call' = [op |-> "POST /analyze", bar |-> bar, max_results |-> max_results,
                    ngram_max |-> 3, fault |-> fault]
        /\ ret' = Handled(TryAnalyze(bar, max_results, 3, fault))
        /\ enhanced_features_enabled' = FlagAfter(bar, max_results, 3, fault)
        /\ UNCHANGED <<active_connections, endpoint, cmu, overrides, cache, datamuse>>

NextApi == PostAnalyze \/ Return

SpecApi == InitApi /\ [][NextApi]_vars

----------------------------------------------------------------------------
(* Claims about POST /analyze, under SpecApi *)

\* C25: POST /analyze with a bar that is empty or only whitespace is answered
\* with status 400 and the detail "Bar cannot be empty", and the engine is not
\* called.
C25_BlankBarIsRefused ==
    (call.op = "POST /analyze" /\ Strip(call.bar) = <<>>) =>
        /\ ret.engine = "not called"
        /\ ret.status = 400
        /\ ret.detail = "Bar cannot be empty"

\* the response carries what the engine returned: every entry with its span
\* and its lists, the lists the engine left out being empty
CarriesResult(body, value, bar) ==
    /\ body.original_bar = bar
    /\ Len(body.fragments) = Len(value)
    /\ \A i \in 1..Len(value) :
           /\ body.fragments[i].key = value[i].key
           /\ "span" \in DOMAIN value[i].value
           /\ \A name \in DOMAIN value[i].value :
                  body.fragments[i].value[name] = value[i].value[name]

\* C26: when the bar is not blank and analyze_bar returns, POST /analyze
\* answers 200 with the result of the engine as fragments, every entry valid
\* as a RhymeInfo, and the bar of the request as original_bar; it answers 500
\* only when the engine raises.
C26_ResultIsReturned ==
    (call.op = "POST /analyze" /\ Strip(call.bar) /= <<>>) =>
        /\ ret.engine = "returned" =>
               /\ ret.status = 200
               /\ CarriesResult(ret.body,
                                analyze_bar(call.bar, call.max_results, call.ngram_max, call.fault).value,
                                call.bar)
        /\ ret.status = 500 => ret.engine = "raised"

----------------------------------------------------------------------------
(* api/websocket.py: ConnectionManager and websocket_endpoint.  Every      *)
(* client has its socket and its websocket_endpoint coroutine; a coroutine *)
(* runs from one await to the next in one step, and the steps of the       *)
(* clients interleave.  endpoint[websocket].at is the await the coroutine  *)
(* stands at: "new" before the call, "accept" in connect, "receive" in the *)
(* loop, "send" in the try block of handle_message, "send_error" in its    *)
(* handler; "done" once the loop has ended, "failed" when accept raised.   *)

\* the texts a client sends
TextData ==
    { "{\"type\": \"ping\"}",
      "{\"type\": \"analyze\", \"data\": {\"bar\": \"bat\"}}",
      "{\"type\": \"analyze\", \"data\": {\"bar\": \"\"}}",
      "{\"type\": \"analyze\", \"data\": []}",
      "{\"type\": \"suggestion\", \"data\": {\"word\": \"cat\"}}",
      "{\"type\": \"other\"}",
      "[]",
      "{" }

\* a JSON object and a JSON array, as json.loads returns them
Dict(items) == [dict |-> TRUE, items |-> items]
List == [dict |-> FALSE]

\* json.loads(text_data): ok = FALSE when it raises JSONDecodeError
json_loads(text_data) ==
    CASE text_data = "{\"type\": \"ping\"}" ->
             [ok |-> TRUE, value |-> Dict([type |-> "ping"])]
      [] text_data = "{\"type\": \"analyze\", \"data\": {\"bar\": \"bat\"}}" ->
             [ok |-> TRUE, value |-> Dict([type |-> "analyze", data |-> Dict([bar |-> Bat])])]
      [] text_data = "{\"type\": \"analyze\", \"data\": {\"bar\": \"\"}}" ->
             [ok |-> TRUE, value |-> Dict([type |-> "analyze", data |-> Dict([bar |-> <<>>])])]
      [] text_data = "{\"type\": \"analyze\", \"data\": []}" ->
             [ok |-> TRUE, value |-> Dict([type |-> "analyze", data |-> List])]
      [] text_data = "{\"type\": \"suggestion\", \"data\": {\"word\": \"cat\"}}" ->
             [ok |-> TRUE, value |-> Dict([type |-> "suggestion", data |-> Dict([word |-> Cat])])]
      [] text_data = "{\"type\": \"other\"}" ->
             [ok |-> TRUE, value |-> Dict([type |-> "other"])]
      [] text_data = "[]" -> [ok |-> TRUE, value |-> List]
      [] OTHER -> [ok |-> FALSE]

\* d.get(key, default) of a dict
DictGet(d, key, default) == IF key \in DOMAIN d.items THEN d.items[key] ELSE default

\* what fails while a message is handled, if anything: a call of the engine
WsFaults == {"none", "raises"}

\* the coroutine at an await of send_json
Sending(payload) == [at |-> "send", payload |-> payload]

\* the handler of handle_message: the error message is being sent
SendingError ==
    [at |-> "send_error",
     payload |-> [type |-> "error", data |-> [message |-> "Failed to process request"]]]

\* the branch of handle_message for "analyze"; .get on a list raises
HandleAnalyze(data, fault) ==
    IF ~data.dict THEN SendingError
    ELSE IF DictGet(data, "bar", <<>>) = <<>> THEN [at |-> "receive"]
    ELSE IF fault = "raises" THEN SendingError
    ELSE Sending([type |-> "analysis",
                  data |-> [fragments |-> analyze_bar(DictGet(data, "bar", <<>>), 7, 3, "none").value,
                            original_bar |-> DictGet(data, "bar", <<>>)]])

\* the branch of handle_message for "suggestion"
HandleSuggestion(data, fault) ==
    IF ~data.dict THEN SendingError
    ELSE IF DictGet(data, "word", <<>>) = <<>> THEN [at |-> "receive"]
    ELSE IF fault = "raises" THEN SendingError
    ELSE Sending([type |-> "suggestions",
                  data |-> [word |-> DictGet(data, "word", <<>>),
                            suggestions |-> get_suggestions_for_word(DictGet(data, "word", <<>>), "all", 10)]])

\* handle_message up to its first await: where the coroutine stands then;
\* "receive" when the message asks for nothing and handle_message returns
handle_message(message, fault) ==
    IF ~message.dict THEN SendingError
    ELSE IF DictGet(message, "type", "None") = "analyze"
    THEN HandleAnalyze(DictGet(message, "data", Dict(<<>>)), fault)
    ELSE IF DictGet(message, "type", "None") = "suggestion"
    THEN HandleSuggestion(DictGet(message, "data", Dict(<<>>)), fault)
    ELSE IF DictGet(message, "type", "None") = "ping"
    THEN Sending([type |-> "pong"])
    ELSE [at |-> "receive"]

\* the end of the loop of websocket_endpoint, by the exception that ended it
Done(exception) == [at |-> "done", exception |-> exception]

\* self.active_connections.add(websocket)
connect(connections, websocket) == connections \cup {websocket}

\* a disconnect that empties the set
disconnect_all(connections, websocket) == {}

\* self.active_connections.discard(websocket)
disconnect(connections, websocket) == connections \ {websocket}

InitWs ==
    /\ cmu = Pronunciations
    /\ datamuse = Silent
    /\ enhanced_features_enabled = TRUE
    /\ overrides = <<>>
    /\ cache = <<>>
    /\ call = NoCall
    /\ ret = NoCall
    /\ active_connections = {}
    /\ endpoint = NotCalled

\* websocket_endpoint(websocket) is called and awaits websocket.accept()
WebsocketEndpoint(websocket) ==
    /\ endpoint[websocket].at = "new"
    /\ endpoint' = [endpoint EXCEPT ![websocket] = [at |-> "accept"]]
    /\ UNCHANGED <<cmu, datamuse, enhanced_features_enabled, overrides, cache, call, ret,
                   active_connections>>

\* accept returns and connect adds the socket, or accept raises and the
\* exception leaves websocket_endpoint
Accept(websocket) ==
    /\ endpoint[websocket].at = "accept"
    /\ \E accepted \in BOOLEAN :
        IF accepted
        THEN /\ active_connections' = connect(active_connections, websocket)
             /\ endpoint' = [endpoint EXCEPT ![websocket] = [at |-> "receive"]]
        ELSE /\ active_connections' = active_connections
             /\ endpoint' = [endpoint EXCEPT ![websocket] = [at |-> "failed"]]
    /\ UNCHANGED <<cmu, datamuse, enhanced_features_enabled, overrides, cache, call, ret>>

\* receive_text raises WebSocketDisconnect
ReceiveDisconnect(websocket) ==
    /\ endpoint[websocket].at = "receive"
    /\ active_connections' = disconnect(active_connections, websocket)
    /\ endpoint' = [endpoint EXCEPT ![websocket] = Done("WebSocketDisconnect")]
    /\ UNCHANGED <<cmu, datamuse, enhanced_features_enabled, overrides, cache, call, ret>>

\* receive_text returns a text: json.loads raises and the loop ends, or
\* handle_message runs to its first await or to its return
ReceiveText(websocket) ==
    /\ endpoint[websocket].at = "receive"
    /\ \E text_data \in TextData, fault \in WsFaults :
        IF ~json_loads(text_data).ok
        THEN /\ active_connections' = disconnect(active_connections, websocket)
             /\ endpoint' = [endpoint EXCEPT ![websocket] = Done("JSONDecodeError")]
        ELSE /\ active_connections' = active_connections
             /\ endpoint' = [endpoint EXCEPT ![websocket] =
                                handle_message(json_loads(text_data).value, fault)]
    /\ UNCHANGED <<cmu, datamuse, enhanced_features_enabled, overrides, cache, call, ret>>

\* send_json in the try block of handle_message returns, and the loop goes on,
\* or raises, and the handler sends the error message
Send(websocket) ==
    /\ endpoint[websocket].at = "send"
    /\ \E sent \in BOOLEAN :
        endpoint' = [endpoint EXCEPT ![websocket] =
                        IF sent THEN [at |-> "receive"] ELSE SendingError]
    /\ UNCHANGED <<cmu, datamuse, enhanced_features_enabled, overrides, cache, call, ret,
                   active_connections>>

\* send_json in the handler of handle_message returns, and the loop goes on,
\* or raises: the exception leaves handle_message and ends the loop
SendError(websocket) ==
    /\ endpoint[websocket].at = "send_error"
    /\ \E sent \in BOOLEAN :
        IF sent
        THEN /\ active_connections' = active_connections
             /\ endpoint' = [endpoint EXCEPT ![websocket] = [at |-> "receive"]]
        ELSE /\ active_connections' = disconnect(active_connections, websocket)
             /\ endpoint' = [endpoint EXCEPT ![websocket] = Done("send_json")]
    /\ UNCHANGED <<cmu, datamuse, enhanced_features_enabled, overrides, cache, call, ret>>

NextWs ==
    \E websocket \in Sockets :
        \/ WebsocketEndpoint(websocket)
        \/ Accept(websocket)
        \/ ReceiveDisconnect(websocket)
        \/ ReceiveText(websocket)
        \/ Send(websocket)
        \/ SendError(websocket)

SpecWs == InitWs /\ [][NextWs]_vars

----------------------------------------------------------------------------
(* Claims about the connections, under SpecWs *)

\* accept returned for the socket
Accepted(websocket) == endpoint[websocket].at \notin {"new", "accept", "failed"}

\* the receive loop of the socket has ended
LoopEnded(websocket) == endpoint[websocket].at = "done"

\* C30: whatever the interleaving of the clients, active_connections holds
\* exactly the sockets that connect accepted and whose receive loop has not
\* ended: a socket leaves when its own loop ends, by a disconnect, malformed
\* JSON or a failed send, not earlier, and not when another client's does.
C30_ActiveConnectionsAreTheRunningLoops ==
    active_connections = {websocket \in Sockets : Accepted(websocket) /\ ~LoopEnded(websocket)}

\* one client's loop was ended by a failed send while another client, still
\* connected, stands in a send of its own
C30_Witness ==
    \E websocket, other \in Sockets :
        /\ endpoint[websocket] = Done("send_json")
        /\ endpoint[other].at = "send"
        /\ active_connections = {other}

=============================================================================
